---- MODULE Spec2Model ----
(***************************************************************************)
(* Model of oats-generator's import-open-api.ts: the reference resolver,   *)
(* the type resolver, the discriminator propagator, the operation          *)
(* synthesizer and the top-level assembler.                                *)
(*                                                                         *)
(* A JavaScript string is modelled as a sequence of tokens (the lexemes    *)
(* the code's prefixes, patterns and separators distinguish), so that      *)
(* startsWith, replace, includes and join are sequence operations and two  *)
(* strings are equal exactly when their token sequences are.  An optional  *)
(* value is a sequence of length 0 (absent) or 1 (present).                *)
(***************************************************************************)
EXTENDS Integers, Sequences, FiniteSets, TLC

VARIABLES fn, arg, ret,                  \* a call of one exported helper
          operationIds, call,            \* generateRestfulComponent calls
          pc, specs, options, cursor, components, output, returned, log

vars == <<fn, arg, ret, operationIds, call,
          pc, specs, options, cursor, components, output, returned, log>>

-----------------------------------------------------------------------------
(* String primitives                                                       *)

Has(x) == Len(x) > 0

startsWith(s, p) == Len(p) <= Len(s) /\ SubSeq(s, 1, Len(p)) = p

includes(s, t) == \E i \in 1..Len(s) : s[i] = t

\* index of the first occurrence of pat in s, 0 when there is none
indexOf(s, pat) ==
  LET hits == {i \in 1..(Len(s) - Len(pat) + 1) : SubSeq(s, i, i + Len(pat) - 1) = pat}
  IN IF hits = {} THEN 0 ELSE CHOOSE i \in hits : \A j \in hits : i <= j

\* String.prototype.replace with a string pattern: the first occurrence only
replace(s, pat, rep) ==
  LET i == indexOf(s, pat)
  IN IF i = 0 THEN s
     ELSE SubSeq(s, 1, i - 1) \o rep \o SubSeq(s, i + Len(pat), Len(s))

\* String.prototype.replace with a one-token global pattern (/x/g)
replaceAll(s, t, rep) == [i \in 1..Len(s) |-> IF s[i] = t THEN rep ELSE s[i]]

RECURSIVE join(_, _)
join(ss, sep) ==
  IF Len(ss) = 0 THEN <<>>
  ELSE IF Len(ss) = 1 THEN ss[1]
  ELSE ss[1] \o sep \o join(Tail(ss), sep)

\* lodash uniq: the first occurrence of every element, in order
RECURSIVE uniq(_)
uniq(ss) ==
  IF Len(ss) = 0 THEN <<>>
  ELSE LET init == uniq(SubSeq(ss, 1, Len(ss) - 1))
           last == ss[Len(ss)]
       IN IF \E i \in 1..Len(init) : init[i] = last THEN init ELSE Append(init, last)

-----------------------------------------------------------------------------
(* case.pascal                                                             *)

Separators == {"/", "_", "#", ".", " ", "-", "{", "}", "${", "#/"}

Capitalised(w) ==
  CASE w = "pet" -> "Pet"
    [] w = "pets" -> "Pets"
    [] w = "list" -> "List"
    [] w = "show" -> "Show"
    [] w = "dog" -> "Dog"
    [] w = "cat" -> "Cat"
    [] w = "id" -> "Id"
    [] w = "tag" -> "Tag"
    [] w = "tagId" -> "TagId"
    [] w = "get" -> "Get"
    [] w = "post" -> "Post"
    [] w = "put" -> "Put"
    [] w = "patch" -> "Patch"
    [] w = "delete" -> "Delete"
    [] w = "by" -> "By"
    [] w = "components" -> "Components"
    [] w = "schemas" -> "Schemas"
    [] w = "responses" -> "Responses"
    [] w = "parameters" -> "Parameters"
    [] w = "requestBodies" -> "RequestBodies"
    [] w = "examples" -> "Examples"
    [] w = "definitions" -> "Definitions"
    [] w = "properties" -> "Properties"
    [] w = "other" -> "Other"
    [] w = "yaml" -> "Yaml"
    [] w = "a" -> "A"
    [] w = "b" -> "B"
    [] OTHER -> w

\* A string without any lower-case letter is put in lower case first; then
\* the letter at the start and after every separator is capitalised (tokens
\* that follow one another without a separator are one word), and the
\* separators are dropped.
pascal(s) ==
  LET upper == Len(s) > 0 /\ \A i \in 1..Len(s) : s[i] \in Separators \cup {"A", "B"}
      low(t) == CASE t = "A" -> "a" [] t = "B" -> "b" [] OTHER -> t
      prepared == [i \in 1..Len(s) |-> IF upper THEN low(s[i]) ELSE s[i]]
      capitalised ==
        [i \in 1..Len(s) |->
           IF i = 1 \/ prepared[i - 1] \in Separators THEN Capitalised(prepared[i])
           ELSE prepared[i]]
  IN SelectSeq(capitalised, LAMBDA t : t \notin Separators)

-----------------------------------------------------------------------------
(* Results of the helpers that can throw                                   *)

NoError == [kind |-> "none", a |-> <<>>, b |-> <<>>]
Error(k, x, y) == [kind |-> k, a |-> x, b |-> y]

Ok(v) == [error |-> NoError, value |-> v]
Throw(e) == [error |-> e, value |-> <<>>]
Failed(r) == r.error # NoError

UnsupportedRef == Error("UnsupportedRef", <<>>, <<>>)
NoItems == Error("NoItems", <<>>, <<>>)

-----------------------------------------------------------------------------
(* getRef                                                                  *)

ComponentsRoot == <<"#/", "components", "/">>

RefPrefix(kind) == ComponentsRoot \o <<kind>>

getRef(ref) ==
  IF startsWith(ref, RefPrefix("schemas"))
    THEN Ok(pascal(replace(ref, RefPrefix("schemas") \o <<"/">>, <<>>)))
  ELSE IF startsWith(ref, RefPrefix("responses"))
    THEN Ok(pascal(replace(ref, RefPrefix("responses") \o <<"/">>, <<>>)) \o <<"Response">>)
  ELSE IF startsWith(ref, RefPrefix("parameters"))
    THEN Ok(pascal(replace(ref, RefPrefix("parameters") \o <<"/">>, <<>>)) \o <<"Parameter">>)
  ELSE IF startsWith(ref, RefPrefix("requestBodies"))
    THEN Ok(pascal(replace(ref, RefPrefix("requestBodies") \o <<"/">>, <<>>)) \o <<"RequestBody">>)
  ELSE Throw(UnsupportedRef)

-----------------------------------------------------------------------------
(* Schema nodes.  Every field of an OpenAPI schema object the code reads;   *)
(* defined = FALSE stands for JavaScript's undefined.                       *)

EmptySchema ==
  [defined |-> TRUE, ref |-> <<>>, type |-> "", nullable |-> FALSE, enum |-> <<>>,
   items |-> <<>>, allOf |-> <<>>, oneOf |-> <<>>, properties |-> <<>>,
   required |-> <<>>, additionalProperties |-> [kind |-> "absent", schema |-> <<>>],
   discriminator |-> <<>>, description |-> <<>>]

Undefined == [EmptySchema EXCEPT !.defined = FALSE]

isReference(property) == property.defined /\ Has(property.ref)

IdentifierRegexp(key) == key \notin {"pet-type", "pet type"}

Indent(tabSize) == [i \in 1..tabSize |-> " "]

formatDescription(description, tabSize) ==
  IF Has(description)
    THEN <<"/**", "\n">>
         \o join([i \in 1..Len(description) |->
                    Indent(tabSize) \o <<" * ", description[i]>>], <<"\n">>)
         \o <<"\n">> \o Indent(tabSize) \o <<" */", "\n">> \o Indent(tabSize)
    ELSE <<>>

\* the first error of a list of results, in evaluation order
FirstError(rs) ==
  LET bad == {i \in 1..Len(rs) : Failed(rs[i])}
  IN IF bad = {} THEN NoError
     ELSE rs[CHOOSE i \in bad : \A j \in bad : i <= j].error

\* Array.prototype.map over results followed by join
mapJoin(rs, sep) ==
  IF FirstError(rs) # NoError THEN Throw(FirstError(rs))
  ELSE Ok(join([i \in 1..Len(rs) |-> rs[i].value], sep))

Then(r, suffix) == IF Failed(r) THEN r ELSE Ok(r.value \o suffix)

\* a template literal around a value whose evaluation may have thrown
Wrap(prefix, r, suffix) == IF Failed(r) THEN r ELSE Ok(prefix \o r.value \o suffix)

NumberTypes == {"int32", "int64", "number", "integer", "long", "float", "double"}
StringTypes == {"string", "byte", "binary", "date", "dateTime", "date-time", "password"}

FreeForm == <<"{", "[key: string]", ":", " ", "any", "}">>

\* the tail of getObject: the braces around the fields and the index signature
objectLiteral(item, fields, additional) ==
  IF Failed(fields) THEN fields
  ELSE IF Failed(additional) THEN additional
  ELSE IF Has(item.properties) \/ item.additionalProperties.kind # "absent"
    THEN IF fields.value \o additional.value = <<>> THEN Ok(<<"{", "}">>)
         ELSE Ok(<<"{", "\n">> \o fields.value \o additional.value \o <<"\n", "}">>)
  ELSE IF item.type = "object" THEN Ok(FreeForm) ELSE Ok(<<"any">>)

RECURSIVE getScalar(_), getArray(_), getObject(_), resolveValue(_)

getScalar(item) ==
  IF ~item.defined THEN Ok(<<>>)
  ELSE
    LET nullable == IF item.nullable THEN <<" ", "|", " ", "null">> ELSE <<>>
    IN CASE item.type \in NumberTypes -> Ok(<<"number">> \o nullable)
         [] item.type = "boolean" -> Ok(<<"boolean">> \o nullable)
         [] item.type = "array" -> Then(getArray(item), nullable)
         [] item.type \in StringTypes ->
              Ok((IF Has(item.enum)
                    THEN <<"\"">>
                         \o join([i \in 1..Len(item.enum[1]) |-> <<item.enum[1][i]>>],
                                 <<"\"", " ", "|", " ", "\"">>)
                         \o <<"\"">>
                    ELSE <<"string">>) \o nullable)
         [] OTHER -> Then(getObject(item), nullable)

\* a variant that never parenthesises the element type
getArrayBare(item) ==
  IF Has(item.items) THEN Wrap(<<>>, resolveValue(item.items[1]), <<"[]">>)
  ELSE Throw(NoItems)

getArray(item) ==
  IF Has(item.items)
    THEN LET items == item.items[1]
         IN IF ~isReference(items) /\ (Has(items.oneOf) \/ Has(items.allOf) \/ Has(items.enum))
              THEN Wrap(<<"(">>, resolveValue(items), <<")", "[]">>)
              ELSE Wrap(<<>>, resolveValue(items), <<"[]">>)
    ELSE Throw(NoItems)

\* a variant that looks at oneOf before allOf and knows no records
getObjectOneOfFirst(item) ==
  IF isReference(item) THEN getRef(item.ref)
  ELSE IF Has(item.oneOf)
    THEN mapJoin([i \in 1..Len(item.oneOf[1]) |-> resolveValue(item.oneOf[1][i])],
                 <<" ", "|", " ">>)
  ELSE IF Has(item.allOf)
    THEN mapJoin([i \in 1..Len(item.allOf[1]) |-> resolveValue(item.allOf[1][i])],
                 <<" ", "&", " ">>)
  ELSE IF item.type = "object" THEN Ok(FreeForm)
  ELSE Ok(<<"{", "}">>)

getObject(item) ==
  IF isReference(item) THEN getRef(item.ref)
  ELSE IF Has(item.allOf)
    THEN mapJoin([i \in 1..Len(item.allOf[1]) |-> resolveValue(item.allOf[1][i])],
                 <<" ", "&", " ">>)
  ELSE IF Has(item.oneOf)
    THEN mapJoin([i \in 1..Len(item.oneOf[1]) |-> resolveValue(item.oneOf[1][i])],
                 <<" ", "|", " ">>)
  ELSE IF item.type = "" /\ ~Has(item.properties) /\ item.additionalProperties.kind = "absent"
    THEN Ok(<<"{", "}">>)
  ELSE IF /\ item.type = "object"
          /\ ~Has(item.properties)
          /\ \/ item.additionalProperties.kind \in {"absent", "true"}
             \/ item.additionalProperties.schema[1] = EmptySchema
    THEN Ok(FreeForm)
  ELSE
    objectLiteral(
      item,
      mapJoin([i \in 1..(IF Has(item.properties) THEN Len(item.properties[1]) ELSE 0) |->
                 Wrap(<<"  ">>
                      \o (IF isReference(item.properties[1][i].schema) THEN <<>>
                          ELSE formatDescription(item.properties[1][i].schema.description, 2))
                      \o (IF IdentifierRegexp(item.properties[1][i].key)
                            THEN <<item.properties[1][i].key>>
                            ELSE <<"\"", item.properties[1][i].key, "\"">>)
                      \o (IF \E k \in 1..Len(item.required) :
                                item.required[k] = item.properties[1][i].key
                            THEN <<>> ELSE <<"?">>)
                      \o <<":", " ">>,
                      resolveValue(item.properties[1][i].schema),
                      <<";">>)],
              <<"\n">>),
      IF item.additionalProperties.kind = "absent" THEN Ok(<<>>)
      ELSE Wrap((IF Has(item.properties) THEN <<"\n">> ELSE <<>>)
                \o <<"  ", "[key: string]", ":", " ">>,
                IF item.additionalProperties.kind = "true" THEN Ok(<<"any">>)
                ELSE resolveValue(item.additionalProperties.schema[1]),
                <<";">>))

resolveValue(schema) ==
  IF isReference(schema) THEN getRef(schema.ref) ELSE getScalar(schema)

-----------------------------------------------------------------------------
(* getResReqTypes.  A response or request-body node: a reference, or an    *)
(* object with an optional content map (entries in Object.keys order).     *)

NoNode == [defined |-> FALSE, ref |-> <<>>, content |-> <<>>, description |-> <<>>]

Void == <<"void">>

\* a variant that takes JSON bodies only
isJsonOnly(contentType) == startsWith(contentType, <<"application/json">>)

isJsonOrBinary(contentType) ==
  startsWith(contentType, <<"application/json">>)
    \/ startsWith(contentType, <<"application/octet-stream">>)

\* the body of the map callback: the type of one node
resReqType(res) ==
  IF ~res.defined THEN Ok(Void)
  ELSE IF isReference(res) THEN getRef(res.ref)
  ELSE IF Has(res.content)
    THEN LET content == res.content[1]
             hits == {i \in 1..Len(content) : isJsonOrBinary(content[i].contentType)}
         IN IF hits = {} THEN Ok(Void)
            ELSE resolveValue(content[CHOOSE i \in hits : \A j \in hits : i <= j].schema)
  ELSE Ok(Void)

\* uniq(...).join(" | ") over the mapped types
uniqJoin(rs) ==
  IF FirstError(rs) # NoError THEN Throw(FirstError(rs))
  ELSE Ok(join(uniq([i \in 1..Len(rs) |-> rs[i].value]), <<" ", "|", " ">>))

getResReqTypes(responsesOrRequests) ==
  uniqJoin([i \in 1..Len(responsesOrRequests) |-> resReqType(responsesOrRequests[i].res)])

-----------------------------------------------------------------------------
(* Routes.  "/pet/{id}" is <<"/", "pet", "/", "{", "id", "}">>.             *)

IsWord(t) == t \notin Separators

\* the positions at which /\{(\w+)}/ matches: the brace of "{" or of "${"
getParamsInPath(path) ==
  LET at == {i \in 1..(Len(path) - 2) :
               path[i] \in {"{", "${"} /\ IsWord(path[i + 1]) /\ path[i + 2] = "}"}
      RECURSIVE collect(_)
      collect(i) ==
        IF i > Len(path) THEN <<>>
        ELSE IF i \in at THEN <<path[i + 1]>> \o collect(i + 1) ELSE collect(i + 1)
  IN collect(1)

\* route.replace(/\{/g, "${")
templateRoute(route) == replaceAll(route, "{", "${")

\* where /\/\$\{(\w+)\}\/?$/ matches in a templated route, 0 when it does not
lastParamInTheRouteRegExp(route) ==
  LET n == Len(route)
      m == IF n > 0 /\ route[n] = "/" THEN n - 1 ELSE n
      tail(k) == /\ k >= 4
                 /\ route[k - 3] = "/" /\ route[k - 2] = "${"
                 /\ IsWord(route[k - 1]) /\ route[k] = "}"
  IN IF tail(n) THEN n - 3 ELSE IF tail(m) THEN m - 3 ELSE 0

\* (route.match(lastParamInTheRouteRegExp) || [])[1], for the verb delete only
lastParamInTheRoute(verb, route) ==
  IF verb = "delete" /\ lastParamInTheRouteRegExp(route) > 0
    THEN <<route[lastParamInTheRouteRegExp(route) + 2]>>
    ELSE <<>>

\* route.replace(lastParamInTheRouteRegExp, ""), for the verb delete only
strippedRoute(verb, route) ==
  IF verb = "delete" /\ lastParamInTheRouteRegExp(route) > 0
    THEN SubSeq(route, 1, lastParamInTheRouteRegExp(route) - 1)
    ELSE route

paramsInPathOf(verb, route) ==
  SelectSeq(getParamsInPath(strippedRoute(verb, templateRoute(route))),
            LAMBDA param : ~(verb = "delete"
                             /\ lastParamInTheRoute(verb, templateRoute(route)) = <<param>>))

\* a variant that counts every status code below 400 as a success
isOkOrRedirect(statusCode) ==
  startsWith(statusCode, <<"1">>) \/ startsWith(statusCode, <<"2">>)
    \/ startsWith(statusCode, <<"3">>)

isOk(statusCode) == startsWith(statusCode, <<"2">>)

isError(statusCode) ==
  startsWith(statusCode, <<"4">>) \/ startsWith(statusCode, <<"5">>)
    \/ statusCode = <<"default">>

-----------------------------------------------------------------------------
(* The identifier generator collaborators.  "petstore" is the generator of *)
(* the example configuration; "echo" returns the verb followed by the      *)
(* route it was given.                                                      *)

petstoreOperationName(verb, route) ==
  LET isParam(i) == i > 1 /\ route[i - 1] \in {"{", "${"}
      idx == 1..Len(route)
      words(keep(_)) ==
        LET RECURSIVE go(_)
            go(i) == IF i > Len(route) THEN <<>>
                     ELSE IF IsWord(route[i]) /\ keep(i)
                            THEN <<i>> \o go(i + 1) ELSE go(i + 1)
        IN go(1)
      entities == words(LAMBDA i : ~isParam(i))
      operators == words(LAMBDA i : isParam(i))
  IN <<verb>>
     \o [k \in 1..Len(entities) |-> Capitalised(route[entities[k]])]
     \o join([k \in 1..Len(operators) |-> <<"By", Capitalised(route[operators[k]])>>], <<>>)

customOperationNameGenerator(generator, verb, route) ==
  IF generator = "petstore" THEN petstoreOperationName(verb, route)
  ELSE <<verb>> \o route

-----------------------------------------------------------------------------
(* generateRestfulComponent                                                *)

NoParameter ==
  [defined |-> FALSE, ref |-> <<>>, name |-> "", in |-> "", required |-> FALSE,
   schema |-> Undefined, description |-> <<>>]

\* lodash get(schemasComponents, path): path is "<kind>.<name>"
get(schemasComponents, path) ==
  IF Len(path) >= 3 /\ path[1] = "parameters" /\ path[2] = "."
    THEN LET name == SubSeq(path, 3, Len(path))
             table == schemasComponents.parameters
             hits == {i \in 1..Len(table) : table[i].name = name}
         IN IF hits = {} THEN NoParameter ELSE table[CHOOSE i \in hits : TRUE].parameter
    ELSE NoParameter

\* [...parameters, ...(operation.parameters || [])] with the references resolved
resolvedParameters(parameters, operation, schemasComponents) ==
  LET all == parameters \o operation.parameters
  IN [i \in 1..Len(all) |->
        IF isReference(all[i])
          THEN get(schemasComponents,
                   replace(replace(all[i].ref, ComponentsRoot, <<>>), <<"/">>, <<".">>))
          ELSE all[i]]

groupByIn(parameters, where) == SelectSeq(parameters, LAMBDA p : p.in = where)

MissingOperationId(verb, route) == Error("Every path must have a operationId", <<verb>>, route)
Duplicated(operationId) == Error("is duplicated in your schema definition", operationId, <<>>)
PathParamNotFound(p, operationId) == Error("The path params can't be found in parameters", <<p>>, operationId)

\* a variant that hands the generator the route already rewritten to ${...}
operationIdOfTemplated(operation, verb, route, generator) ==
  IF ~Has(operation.operationId)
    THEN IF ~Has(generator) THEN Throw(MissingOperationId(verb, route))
         ELSE Ok(customOperationNameGenerator(generator[1], verb, templateRoute(route)))
    ELSE Ok(operation.operationId)

\* the identifier of the operation: its own, or the generator's
operationIdOf(operation, verb, route, generator) ==
  IF ~Has(operation.operationId)
    THEN IF ~Has(generator) THEN Throw(MissingOperationId(verb, route))
         ELSE Ok(customOperationNameGenerator(generator[1], verb, route))
    ELSE Ok(operation.operationId)

\* a variant without the duplicate check
neverDuplicated(ids, operationId) == FALSE

isDuplicated(ids, operationId) == \E i \in 1..Len(ids) : ids[i] = operationId

\* a variant that leaves out the placeholders it finds no parameter for
paramsTypesLenient(paramsInPath, pathParams, operationId) ==
  Ok(join([k \in 1..Len(paramsInPath) |->
             IF \E i \in 1..Len(pathParams) : pathParams[i].name = paramsInPath[k]
               THEN <<paramsInPath[k], ":", " ", "string">> ELSE <<>>],
          <<",", " ">>))

\* try { ... } catch (err) { throw new Error(...) }
Caught(r, e) == IF Failed(r) THEN Throw(e) ELSE r

paramsTypesOf(paramsInPath, pathParams, operationId) ==
  mapJoin([k \in 1..Len(paramsInPath) |->
             LET p == paramsInPath[k]
                 hits == {i \in 1..Len(pathParams) : pathParams[i].name = p}
             IN IF hits = {} THEN Throw(PathParamNotFound(p, operationId))
                ELSE LET found == pathParams[CHOOSE i \in hits : \A j \in hits : i <= j]
                     IN Caught(Wrap(<<found.name>>
                                    \o (IF found.required THEN <<>> ELSE <<"?">>)
                                    \o <<":", " ">>,
                                    resolveValue(found.schema),
                                    <<>>),
                               PathParamNotFound(p, operationId))],
          <<",", " ">>)

queryParamsTypeOf(queryParams) ==
  mapJoin([k \in 1..Len(queryParams) |->
             LET p == queryParams[k]
                 processedName == IF IdentifierRegexp(p.name) THEN <<p.name>>
                                  ELSE <<"\"", p.name, "\"">>
             IN Wrap(formatDescription(p.description, 2) \o processedName
                     \o (IF p.required THEN <<>> ELSE <<"?">>) \o <<":", " ">>,
                     resolveValue(p.schema),
                     <<>>)],
          <<";", "\n", "  ">>)

descriptionOf(operation) ==
  formatDescription(
    IF Has(operation.summary) /\ Has(operation.description)
      THEN operation.summary \o <<"">> \o operation.description
      ELSE operation.summary \o operation.description, 0)

Aborted(e, ids) ==
  [error |-> e, operationIds |-> ids, output |-> <<>>, component |-> <<>>,
   responseTypes |-> <<>>, requestBodyTypes |-> <<>>]

\* a variant that always carries the resolved types in the descriptor
synthesizedInline(operation, verb, route, ids, responseTypes, errorTypes, requestBodyTypes, paramsInPath, headerParams, paramsTypes, queryParamsType) ==
  [error |-> NoError,
   operationIds |-> ids,
   responseTypes |-> responseTypes,
   requestBodyTypes |-> requestBodyTypes,
   output |-> <<>>,
   component |->
     [componentName |-> pascal(operation.operationId),
      verb |-> verb,
      route |-> strippedRoute(verb, templateRoute(route)),
      description |-> descriptionOf(operation),
      typeNames |->
        [response |-> responseTypes,
         query |-> <<"any">>,
         body |-> IF requestBodyTypes = Void THEN <<"any">> ELSE requestBodyTypes],
      errorTypes |-> errorTypes,
      headerParams |-> headerParams,
      paramsInPath |-> paramsInPath,
      paramsTypes |-> paramsTypes,
      operation |-> operation]]

\* the declarations emitted and the descriptor returned
synthesized(operation, verb, route, ids, responseTypes, errorTypes, requestBodyTypes, paramsInPath, headerParams, paramsTypes, queryParamsType) ==
  LET componentName == pascal(operation.operationId)
      needARequestBodyComponent == includes(requestBodyTypes, "{")
      needAResponseComponent == includes(responseTypes, "{")
      responseDecl ==
        IF needAResponseComponent
          THEN <<"\n", "export", " ">>
               \o (IF includes(responseTypes, "|") \/ includes(responseTypes, "&")
                     THEN <<"type", " ">> \o componentName \o <<"Response", " ", "=">>
                     ELSE <<"interface", " ">> \o componentName \o <<"Response">>)
               \o <<" ">> \o responseTypes \o <<"\n">>
          ELSE <<>>
      queryDecl ==
        IF Has(queryParamsType)
          THEN <<"\n", "export", " ", "interface", " ">> \o componentName
               \o <<"QueryParams", " ", "{", "\n">> \o queryParamsType
               \o <<";", "\n", "}", "\n">>
          ELSE <<>>
      bodyDecl ==
        IF needARequestBodyComponent
          THEN <<"\n", "export", " ", "interface", " ">> \o componentName
               \o <<"RequestBody", " ">> \o requestBodyTypes \o <<"\n">>
          ELSE <<>>
  IN [error |-> NoError,
      operationIds |-> ids,
      responseTypes |-> responseTypes,
      requestBodyTypes |-> requestBodyTypes,
      output |-> responseDecl \o queryDecl \o bodyDecl,
      component |->
        [componentName |-> componentName,
         verb |-> verb,
         route |-> strippedRoute(verb, templateRoute(route)),
         description |-> descriptionOf(operation),
         typeNames |->
           [response |-> IF needAResponseComponent
                           THEN componentName \o <<"Response">>
                           ELSE responseTypes,
            query |-> IF Has(queryParamsType)
                        THEN componentName \o <<"QueryParams">>
                        ELSE <<"any">>,
            body |-> IF needARequestBodyComponent
                       THEN componentName \o <<"RequestBody">>
                       ELSE IF requestBodyTypes = Void THEN <<"any">>
                       ELSE requestBodyTypes],
         errorTypes |-> errorTypes,
         headerParams |-> headerParams,
         paramsInPath |-> paramsInPath,
         paramsTypes |-> paramsTypes,
         operation |-> operation]]

\* the parameter types, once the response and request-body types are resolved
withParameterTypes(operation, verb, route, ids, responseTypes, errorTypes, requestBodyTypes, paramsInPath, headerParams, paramsTypes, queryParamsType) ==
  IF Failed(paramsTypes) THEN Aborted(paramsTypes.error, ids)
  ELSE IF Failed(queryParamsType) THEN Aborted(queryParamsType.error, ids)
  ELSE synthesized(operation, verb, route, ids, responseTypes, errorTypes, requestBodyTypes,
                   paramsInPath, headerParams, paramsTypes.value, queryParamsType.value)

withParameters(operation, verb, route, ids, responseTypes, errorTypes, requestBodyTypes, paramsInPath, resolved) ==
  withParameterTypes(operation, verb, route, ids, responseTypes, errorTypes, requestBodyTypes,
                     paramsInPath, groupByIn(resolved, "header"),
                     paramsTypesOf(paramsInPath, groupByIn(resolved, "path"),
                                   operation.operationId),
                     queryParamsTypeOf(groupByIn(resolved, "query")))

\* the response, error and request-body types, once the identifier is recorded
withTypes(operation, verb, route, ids, parameters, schemasComponents, responses, errored, body) ==
  IF Failed(responses) THEN Aborted(responses.error, ids)
  ELSE IF Failed(errored) THEN Aborted(errored.error, ids)
  ELSE IF Failed(body) THEN Aborted(body.error, ids)
  ELSE withParameters(operation, verb, route, ids,
                      IF responses.value = <<>> THEN Void ELSE responses.value,
                      IF errored.value = <<>> THEN <<"unknown">> ELSE errored.value,
                      body.value,
                      paramsInPathOf(verb, route),
                      resolvedParameters(parameters, operation, schemasComponents))

\* the duplicate check and the push, once the identifier is known
withOperationId(operation, verb, route, ids, parameters, schemasComponents, id) ==
  IF Failed(id) THEN Aborted(id.error, ids)
  ELSE IF isDuplicated(ids, id.value) THEN Aborted(Duplicated(id.value), ids)
  ELSE withTypes([operation EXCEPT !.operationId = id.value], verb, route,
                 Append(ids, id.value), parameters, schemasComponents,
                 getResReqTypes(SelectSeq(operation.responses, LAMBDA e : isOk(e.statusCode))),
                 getResReqTypes(SelectSeq(operation.responses, LAMBDA e : isError(e.statusCode))),
                 getResReqTypes(<<[statusCode |-> <<"body">>, res |-> operation.requestBody]>>))

generateRestfulComponent(operation, verb, route, ids, parameters, schemasComponents, generator) ==
  withOperationId(operation, verb, route, ids, parameters, schemasComponents,
                  operationIdOf(operation, verb, route, generator))

-----------------------------------------------------------------------------
(* resolveDiscriminator.  components.schemas is a list of name/schema      *)
(* entries in Object.entries order.                                         *)

SchemasPrefix == RefPrefix("schemas") \o <<"/">>

BadMapping == Error("Discriminator mapping outside of #/components/schemas is not supported", <<>>, <<>>)

\* schema with properties.<propertyName>.enum = [name], as lodash set leaves it
withEnum(schema, propertyName, name) ==
  LET props == IF Has(schema.properties) THEN schema.properties[1] ELSE <<>>
      hits == {j \in 1..Len(props) : props[j].key = propertyName}
      narrowed ==
        IF hits = {}
          THEN Append(props, [key |-> propertyName,
                              schema |-> [EmptySchema EXCEPT !.enum = << <<name>> >>]])
          ELSE [j \in 1..Len(props) |->
                  IF j \in hits THEN [props[j] EXCEPT !.schema.enum = << <<name>> >>]
                  ELSE props[j]]
  IN [schema EXCEPT !.properties = <<narrowed>>]

\* set(specs, `components.schemas.${target}.properties.${propertyName}.enum`, [name])
setEnum(schemas, target, propertyName, name) ==
  LET hits == {i \in 1..Len(schemas) : schemas[i].name = target}
  IN IF hits = {}
       THEN Append(schemas, [name |-> target,
                             schema |-> withEnum(EmptySchema, propertyName, name)])
       ELSE [i \in 1..Len(schemas) |->
               IF i \in hits
                 THEN [schemas[i] EXCEPT !.schema = withEnum(schemas[i].schema, propertyName, name)]
                 ELSE schemas[i]]

\* a variant that tests the prefix as getRef does, without the closing slash
isSchemaRefLoose(ref) == startsWith(ref, RefPrefix("schemas"))

\* the check of one mapping entry's ref
isSchemaRef(ref) == startsWith(ref, SchemasPrefix)

hasMapping(schema) ==
  ~isReference(schema) /\ Has(schema.discriminator) /\ Has(schema.discriminator[1].mapping)

\* the two nested forEach loops: schema i of the n listed at the call, entry k
RECURSIVE propagate(_, _, _, _)
propagate(schemas, n, i, k) ==
  IF i > n THEN [error |-> NoError, schemas |-> schemas]
  ELSE IF ~hasMapping(schemas[i].schema) THEN propagate(schemas, n, i + 1, 1)
  ELSE
    LET discriminator == schemas[i].schema.discriminator[1]
        mapping == discriminator.mapping[1]
    IN IF k > Len(mapping) THEN propagate(schemas, n, i + 1, 1)
       ELSE IF ~isSchemaRef(mapping[k].ref) THEN [error |-> BadMapping, schemas |-> schemas]
       ELSE propagate(setEnum(schemas,
                              SubSeq(mapping[k].ref, Len(SchemasPrefix) + 1, Len(mapping[k].ref)),
                              discriminator.propertyName, mapping[k].name),
                      n, i, k + 1)

resolveDiscriminator(schemas) == propagate(schemas, Len(schemas), 1, 1)

-----------------------------------------------------------------------------
(* The components definitions                                              *)

generateInterface(name, schema) ==
  Wrap(formatDescription(schema.description, 0) \o <<"export", " ", "interface", " ">>
       \o pascal(name) \o <<" ">>,
       getScalar(schema),
       <<>>)

\* a variant that declares every entry as an interface
schemaDefinitionAsInterface(name, schema) == generateInterface(name, schema)

\* the callback of generateSchemasDefinition's map: one entry of components.schemas
schemaDefinition(name, schema) ==
  IF /\ ~isReference(schema)
     /\ schema.type \in {"", "object"}
     /\ ~Has(schema.allOf)
     /\ ~Has(schema.oneOf)
     /\ ~schema.nullable
    THEN generateInterface(name, schema)
    ELSE Wrap(formatDescription(IF isReference(schema) THEN <<>> ELSE schema.description, 0)
              \o <<"export", " ", "type", " ">> \o pascal(name) \o <<" ", "=", " ">>,
              resolveValue(schema),
              <<";">>)

generateSchemasDefinition(schemas) ==
  IF Len(schemas) = 0 THEN Ok(<<>>)
  ELSE Then(mapJoin([i \in 1..Len(schemas) |-> schemaDefinition(schemas[i].name, schemas[i].schema)],
                    <<"\n", "\n">>),
            <<"\n">>)

\* one entry of components.requestBodies or components.responses
declaration(name, doc, type, suffix) ==
  IF Failed(type) THEN type
  ELSE IF type.value = <<"{", "}">>
    THEN Ok(<<"// tslint:disable-next-line:no-empty-interface", "\n",
              "export", " ", "interface", " ">> \o pascal(name) \o <<suffix, " ">> \o type.value)
  ELSE IF includes(type.value, "{") /\ ~includes(type.value, "|") /\ ~includes(type.value, "&")
    THEN Ok(doc \o <<"export", " ", "interface", " ">> \o pascal(name)
            \o <<suffix, " ">> \o type.value)
  ELSE Ok(doc \o <<"export", " ", "type", " ">> \o pascal(name)
          \o <<suffix, " ", "=", " ">> \o type.value \o <<";">>)

bodyDefinition(name, node, suffix) ==
  declaration(name,
              IF isReference(node) THEN <<>> ELSE formatDescription(node.description, 0),
              getResReqTypes(<<[statusCode |-> <<>>, res |-> node]>>),
              suffix)

generateRequestBodiesDefinition(requestBodies) ==
  IF Len(requestBodies) = 0 THEN Ok(<<>>)
  ELSE Wrap(<<"\n">>,
            mapJoin([i \in 1..Len(requestBodies) |->
                       bodyDefinition(requestBodies[i].name, requestBodies[i].node,
                                      "RequestBody")],
                    <<"\n", "\n">>),
            <<"\n">>)

generateResponsesDefinition(responses) ==
  IF Len(responses) = 0 THEN Ok(<<>>)
  ELSE Wrap(<<"\n">>,
            mapJoin([i \in 1..Len(responses) |->
                       bodyDefinition(responses[i].name, responses[i].node, "Response")],
                    <<"\n", "\n">>),
            <<"\n">>)

-----------------------------------------------------------------------------
(* importOpenApi: the collaborators it is configured with                  *)

Lowered(w) ==
  CASE w = "List" -> "list"
    [] w = "Show" -> "show"
    [] w = "Get" -> "get"
    [] w = "Post" -> "post"
    [] w = "Put" -> "put"
    [] w = "Patch" -> "patch"
    [] w = "Delete" -> "delete"
    [] OTHER -> w

\* case.camel: as pascal, with the first word in lower case
camel(s) ==
  LET words == pascal(s)
  IN [i \in 1..Len(words) |-> IF i = 1 THEN Lowered(words[i]) ELSE words[i]]

\* the customGenerator of the example configuration
customGeneratorHttp(component) ==
  LET paramsTypes == IF Has(component.paramsTypes) THEN component.paramsTypes \o <<",">>
                     ELSE <<>>
  IN IF component.verb = "get"
       THEN <<"\n", "export", " ", "const", " ">> \o camel(component.componentName)
            \o <<" ", "=", " ", "(">> \o paramsTypes \o <<"params", "?", ":", " ">>
            \o component.typeNames.query
            \o <<",", " ", "config", "?", ":", " ", "RequestConfig", ")", " ", "=>", " ",
                 "clientInstance", ".", "get", "<">>
            \o component.typeNames.response \o <<">", "(", "'">> \o component.route
            \o <<"'", ",", " ", "params", ",", " ", "config", ")", "\n">>
       ELSE <<"\n", "export", " ", "const", " ">> \o camel(component.componentName)
            \o <<" ", "=", " ", "(">> \o paramsTypes \o <<"body", ":", " ">>
            \o component.typeNames.body
            \o <<",", " ", "config", "?", ":", " ", "RequestConfig", ")", " ", "=>", " ",
                 "clientInstance", ".", component.verb, "<">>
            \o component.typeNames.response \o <<">", "(", "'">> \o component.route
            \o <<"'", ",", " ", "body", ",", " ", "config", ")", "\n">>

\* a transformer: every route moved under /v1
transformer(document) ==
  [document EXCEPT !.paths = [i \in 1..Len(document.paths) |->
     [document.paths[i] EXCEPT !.route = <<"/", "v1">> \o document.paths[i].route]]]

\* prettier.format: the layout tokens are the formatter's, not the generator's
format(text) == SelectSeq(text, LAMBDA t : t \notin {"\n", " ", "  "})

Banner == <<"/* Generated by oats-generator */", "\n">>

SupportedVerbs == {"get", "post", "patch", "put", "delete"}

\* the nested forEach over specs.paths and the entries of each path item
entriesOf(paths) ==
  join([i \in 1..Len(paths) |->
          [k \in 1..Len(paths[i].verbs) |->
             [route |-> paths[i].route, parameters |-> paths[i].parameters,
              verb |-> paths[i].verbs[k].verb, operation |-> paths[i].verbs[k].operation]]],
       <<>>)

-----------------------------------------------------------------------------
(* The inputs the specifications draw from                                 *)

SchemaRef(name) == [EmptySchema EXCEPT !.ref = SchemasPrefix \o name]
StringSchema == [EmptySchema EXCEPT !.type = "string"]
NumberSchema == [EmptySchema EXCEPT !.type = "integer"]
ArrayOf(items) == [EmptySchema EXCEPT !.type = "array", !.items = <<items>>]
ArrayWithoutItems == [EmptySchema EXCEPT !.type = "array"]
OutsideRef == [EmptySchema EXCEPT !.ref = <<"#/", "definitions", "/", "Pet">>]
ObjectOf(props, required) ==
  [EmptySchema EXCEPT !.type = "object", !.properties = <<props>>, !.required = required]
InlinePet == ObjectOf(<<[key |-> "name", schema |-> StringSchema]>>, <<"name">>)

Content(entries) ==
  [defined |-> TRUE, ref |-> <<>>, content |-> <<entries>>, description |-> <<>>]
Media(contentType, schema) == [contentType |-> contentType, schema |-> schema]
Json(schema) == Content(<<Media(<<"application/json">>, schema)>>)
NoContent == [defined |-> TRUE, ref |-> <<>>, content |-> <<>>, description |-> <<>>]
NodeRef(ref) == [defined |-> TRUE, ref |-> ref, content |-> <<>>, description |-> <<>>]

\* pointers: a root followed by a name
PointerRoots ==
  {RefPrefix("schemas") \o <<"/">>, RefPrefix("responses") \o <<"/">>,
   RefPrefix("parameters") \o <<"/">>, RefPrefix("requestBodies") \o <<"/">>,
   RefPrefix("schemas") \o <<"Extra", "/">>, RefPrefix("responses") \o <<"Old", "/">>,
   RefPrefix("examples") \o <<"/">>, RefPrefix("headers") \o <<"/">>,
   <<"#/", "definitions", "/">>, <<"#/", "paths", "/">>,
   <<"other", ".", "yaml">> \o RefPrefix("schemas") \o <<"/">>}

PointerNames ==
  {<<"Pet">>, <<"pet">>, <<"list", "_", "pets">>, <<"list", "Pets">>,
   <<"Pet", "/", "properties", "/", "id">>, <<"pet", "-", "store">>}

Pointers == {root \o name : root \in PointerRoots, name \in PointerNames}

\* response and request-body nodes
Nodes ==
  {NoNode, NoContent,
   NodeRef(RefPrefix("responses") \o <<"/", "not", "_", "found">>),
   NodeRef(RefPrefix("requestBodies") \o <<"/", "Pet">>),
   NodeRef(<<"#/", "definitions", "/", "Pet">>),
   Json(SchemaRef(<<"Pet">>)), Json(StringSchema), Json(InlinePet), Json(ArrayWithoutItems),
   Content(<<Media(<<"text/plain">>, StringSchema)>>),
   Content(<<Media(<<"application/octet-stream">>, StringSchema)>>),
   Content(<<Media(<<"application/json", ";", "charset=utf-8">>, NumberSchema)>>),
   Content(<<Media(<<"text/plain">>, StringSchema),
             Media(<<"application/json">>, SchemaRef(<<"Pet">>))>>),
   Content(<<Media(<<"application/xml">>, StringSchema),
             Media(<<"application/octet-stream">>, StringSchema),
             Media(<<"application/json">>, SchemaRef(<<"Pet">>))>>),
   Content(<<Media(<<"application/json">>, ArrayOf(SchemaRef(<<"Pet">>))),
             Media(<<"application/json", ";", "charset=utf-8">>, StringSchema)>>),
   Content(<<>>)}

\* components.schemas tables with discriminators
Mapped(name, ref) == [name |-> name, ref |-> ref]
Discriminated(propertyName, mapping) ==
  [EmptySchema EXCEPT
     !.type = "object",
     !.properties = << <<[key |-> propertyName, schema |-> StringSchema]>> >>,
     !.discriminator = <<[propertyName |-> propertyName, mapping |-> <<mapping>>]>>]
Unmapped(propertyName) ==
  [EmptySchema EXCEPT
     !.type = "object",
     !.discriminator = <<[propertyName |-> propertyName, mapping |-> <<>>]>>]
Dog == ObjectOf(<<[key |-> "petType", schema |-> StringSchema],
                  [key |-> "bark", schema |-> StringSchema]>>, <<"petType">>)
Cat == ObjectOf(<<[key |-> "name", schema |-> StringSchema]>>, <<>>)
Named(name, schema) == [name |-> name, schema |-> schema]
ToDog == SchemasPrefix \o <<"Dog">>
ToCat == SchemasPrefix \o <<"Cat">>

SchemaTables ==
  {<<>>,
   <<Named(<<"Pet">>, StringSchema)>>,
   <<Named(<<"Pet">>, Discriminated("petType", <<Mapped("dog", ToDog), Mapped("cat", ToCat)>>)),
     Named(<<"Dog">>, Dog), Named(<<"Cat">>, Cat)>>,
   <<Named(<<"Pet">>, Discriminated("petType", <<Mapped("dog", ToDog), Mapped("puppy", ToDog)>>)),
     Named(<<"Dog">>, Dog)>>,
   <<Named(<<"Pet">>, Discriminated("petType",
        <<Mapped("dog", ToDog), Mapped("cat", <<"#/", "definitions", "/", "Cat">>)>>)),
     Named(<<"Dog">>, Dog), Named(<<"Cat">>, Cat)>>,
   <<Named(<<"Pet">>, Discriminated("petType",
        <<Mapped("dog", <<"other", ".", "yaml">> \o ToDog)>>)),
     Named(<<"Dog">>, Dog)>>,
   <<Named(<<"Pet">>, Discriminated("petType",
        <<Mapped("dog", RefPrefix("schemas") \o <<"Extra", "/", "Dog">>)>>)),
     Named(<<"Dog">>, Dog)>>,
   <<Named(<<"Pet">>, Discriminated("petType", <<Mapped("dog", ToDog)>>))>>,
   <<Named(<<"Pet">>, Discriminated("petType", <<Mapped("dog", ToDog)>>)),
     Named(<<"Animal">>, Discriminated("petType", <<Mapped("hound", ToDog)>>)),
     Named(<<"Dog">>, Dog)>>,
   <<Named(<<"Pet">>, Discriminated("petType", <<Mapped("dog", ToDog)>>)),
     Named(<<"Animal">>, Discriminated("kind", <<Mapped("dog", ToDog), Mapped("cat", ToCat)>>)),
     Named(<<"Dog">>, Dog), Named(<<"Cat">>, Cat)>>,
   <<Named(<<"Dog">>, Dog),
     Named(<<"Pet">>, Discriminated("petType", <<Mapped("dog", ToDog)>>))>>,
   <<Named(<<"Pet">>, Unmapped("petType")), Named(<<"Dog">>, Dog)>>,
   <<Named(<<"Pet">>, Discriminated("petType", <<Mapped("pet", SchemasPrefix \o <<"Pet">>)>>))>>,
   <<Named(<<"Pet">>, Discriminated("petType", <<Mapped("dog", ToDog)>>)),
     Named(<<"Dog">>, SchemaRef(<<"Cat">>)), Named(<<"Cat">>, Cat)>>,
   <<Named(<<"Pet">>, Discriminated("petType",
        <<Mapped("dog", ToDog \o <<"/", "properties", "/", "id">>)>>)),
     Named(<<"Dog">>, Dog)>>,
   <<Named(<<"Pet">>, Discriminated("petType", <<>>)), Named(<<"Dog">>, Dog)>>}

\* schemas handed to getObject: what getScalar passes on (type object, no
\* type, a type it does not know) and references
ObjectSchemas ==
  LET name == [key |-> "name", schema |-> StringSchema]
      tag == [key |-> "tag", schema |-> [StringSchema EXCEPT !.description = <<"a tag">>]]
      petType == [key |-> "pet-type", schema |-> SchemaRef(<<"Pet">>)]
      with(s, additional) ==
        [s EXCEPT !.additionalProperties = [kind |-> "schema", schema |-> <<additional>>]]
      open(s) == [s EXCEPT !.additionalProperties = [kind |-> "true", schema |-> <<>>]]
      object == [EmptySchema EXCEPT !.type = "object"]
      both == [EmptySchema EXCEPT !.allOf = << <<SchemaRef(<<"Pet">>), InlinePet>> >>,
                                  !.oneOf = << <<StringSchema, NumberSchema>> >>]
  IN {SchemaRef(<<"Pet">>), SchemaRef(<<"list", "_", "pets">>), OutsideRef,
      [EmptySchema EXCEPT !.allOf = << <<SchemaRef(<<"Pet">>), InlinePet>> >>],
      [EmptySchema EXCEPT !.allOf = << <<InlinePet>> >>],
      [EmptySchema EXCEPT !.allOf = << <<SchemaRef(<<"Pet">>), OutsideRef>> >>],
      [EmptySchema EXCEPT !.oneOf = << <<SchemaRef(<<"Pet">>), StringSchema>> >>],
      [EmptySchema EXCEPT !.oneOf = << <<ArrayWithoutItems, StringSchema>> >>],
      both, open(both), [both EXCEPT !.type = "object", !.properties = << <<name>> >>],
      [InlinePet EXCEPT !.oneOf = << <<StringSchema, NumberSchema>> >>],
      EmptySchema, [EmptySchema EXCEPT !.enum = << <<"dog", "cat">> >>],
      [EmptySchema EXCEPT !.required = <<"name">>],
      object, open(object), with(object, EmptySchema), with(object, StringSchema),
      with(object, OutsideRef), [object EXCEPT !.required = <<"name">>],
      open(EmptySchema), with(EmptySchema, EmptySchema), with(EmptySchema, NumberSchema),
      InlinePet, Cat, Dog, open(InlinePet), with(Cat, SchemaRef(<<"Pet">>)),
      ObjectOf(<<>>, <<>>), open(ObjectOf(<<>>, <<>>)),
      ObjectOf(<<name, tag, petType>>, <<"pet-type", "name">>),
      ObjectOf(<<name, tag>>, <<"tag", "other">>),
      [EmptySchema EXCEPT !.properties = << <<name>> >>],
      [EmptySchema EXCEPT !.properties = << <<name>> >>, !.required = <<"name">>],
      ObjectOf(<<name, [key |-> "tags", schema |-> ArrayWithoutItems]>>, <<>>),
      ObjectOf(<<[key |-> "owner", schema |-> InlinePet]>>, <<"owner">>),
      [EmptySchema EXCEPT !.type = "null"], [EmptySchema EXCEPT !.type = "file"],
      [EmptySchema EXCEPT !.type = "file", !.required = <<"name">>]}

\* schemas of every kind getScalar tells apart
Schemas ==
  LET enum(s) == [s EXCEPT !.enum = << <<"dog", "cat">> >>]
      null(s) == [s EXCEPT !.nullable = TRUE]
      oneOf == [EmptySchema EXCEPT !.oneOf = << <<SchemaRef(<<"Pet">>), StringSchema>> >>]
      allOf == [EmptySchema EXCEPT !.allOf = << <<SchemaRef(<<"Pet">>), InlinePet>> >>]
      object == [EmptySchema EXCEPT !.type = "object"]
  IN {StringSchema, NumberSchema, [EmptySchema EXCEPT !.type = "boolean"],
      [EmptySchema EXCEPT !.type = "date-time"], [EmptySchema EXCEPT !.type = "double"],
      null(StringSchema), null(NumberSchema), enum(StringSchema), null(enum(StringSchema)),
      enum(NumberSchema), [StringSchema EXCEPT !.enum = << <<"dog">> >>],
      SchemaRef(<<"Pet">>), SchemaRef(<<"list", "_", "pets">>), null(SchemaRef(<<"Pet">>)),
      SchemaRef(<<"pet", "-", "store">>), SchemaRef(<<"a", "_", "b">>),
      SchemaRef(<<"A", "_", "B">>), SchemaRef(<<"A">>),
      [InlinePet EXCEPT !.ref = SchemasPrefix \o <<"Dog">>],
      [EmptySchema EXCEPT !.ref = RefPrefix("responses") \o <<"/", "not", "_", "found">>],
      OutsideRef, EmptySchema, null(EmptySchema), enum(EmptySchema),
      object, null(object), InlinePet, null(InlinePet), Dog,
      oneOf, null(oneOf), allOf, null(allOf),
      [EmptySchema EXCEPT !.oneOf = << <<StringSchema>> >>],
      [EmptySchema EXCEPT !.allOf = << <<InlinePet>> >>],
      [EmptySchema EXCEPT !.type = "null"],
      ArrayWithoutItems, null(ArrayWithoutItems),
      ArrayOf(StringSchema), null(ArrayOf(StringSchema)), ArrayOf(SchemaRef(<<"Pet">>)),
      ArrayOf(oneOf), ArrayOf(null(StringSchema))}

\* schemas of type array: every schema as the element, or none
ArraySchemas ==
  {ArrayOf(items) : items \in Schemas}
    \cup {[ArrayOf(items) EXCEPT !.nullable = TRUE] : items \in Schemas}
    \cup {ArrayWithoutItems, [ArrayWithoutItems EXCEPT !.nullable = TRUE],
          [ArrayWithoutItems EXCEPT !.enum = << <<"dog", "cat">> >>]}

\* components.schemas tables: one entry of every kind, alone or before another
DefinitionTables ==
  {<<Named(<<"Pet">>, schema)>> : schema \in Schemas \cup ObjectSchemas}
    \cup {<<Named(<<"pet", "_", "store">>, schema), Named(<<"Dog">>, other)>> :
            schema \in Schemas, other \in {Dog, StringSchema, ArrayWithoutItems}}
    \cup {<<>>}

\* operations and the arguments of generateRestfulComponent
Operation(operationId, parameters, requestBody, responses) ==
  [operationId |-> operationId, summary |-> <<>>, description |-> <<>>,
   parameters |-> parameters, requestBody |-> requestBody, responses |-> responses]

Parameter(name, where) ==
  [defined |-> TRUE, ref |-> <<>>, name |-> name, in |-> where, required |-> where = "path",
   schema |-> StringSchema, description |-> <<>>]
ParameterRef(name) ==
  [NoParameter EXCEPT !.defined = TRUE, !.ref = RefPrefix("parameters") \o <<"/">> \o name]

Components ==
  [schemas |-> <<>>,
   parameters |-> <<[name |-> <<"id">>, parameter |-> Parameter("id", "path")],
                    [name |-> <<"limit">>, parameter |-> Parameter("limit", "query")]>>,
   requestBodies |-> <<>>,
   responses |-> <<>>]

Verbs == {"get", "post", "patch", "put", "delete"}

Routes ==
  {<<"/", "pet">>,
   <<"/", "pet", "/", "{", "id", "}">>,
   <<"/", "pet", "/", "{", "id", "}", "/">>,
   <<"/", "pet", "/", "{", "id", "}", "/", "tag">>,
   <<"/", "pet", "/", "{", "id", "}", "/", "tag", "/", "{", "tagId", "}">>,
   <<"/", "{", "id", "}">>,
   <<"/", "pet", "/", "{", "pet", "-", "id", "}">>}

\* <<path-item-level parameters, operation-level parameters>>
ParameterLists ==
  {<< <<>>, <<>> >>,
   << <<Parameter("id", "path")>>, <<>> >>,
   << <<>>, <<Parameter("id", "path")>> >>,
   << <<Parameter("id", "path")>>, <<Parameter("tagId", "path")>> >>,
   << <<>>, <<Parameter("tagId", "path"), Parameter("id", "path")>> >>,
   << <<ParameterRef(<<"id">>)>>, <<ParameterRef(<<"limit">>)>> >>,
   << <<Parameter("id", "query")>>, <<Parameter("tagId", "path")>> >>,
   << <<ParameterRef(<<"missing">>)>>, <<Parameter("tagId", "header")>> >>}

Status(code, res) == [statusCode |-> code, res |-> res]
PetJson == Json(SchemaRef(<<"Pet">>))
ErrorJson == Json(SchemaRef(<<"Error">>))

\* operation.responses in Object.entries order: numeric codes ascending, then the rest
ResponseLists ==
  {<<>>,
   <<Status(<<"2", "00">>, PetJson)>>,
   <<Status(<<"2", "00">>, PetJson), Status(<<"4", "04">>, ErrorJson),
     Status(<<"default">>, ErrorJson)>>,
   <<Status(<<"2", "00">>, PetJson), Status(<<"2", "01">>, PetJson),
     Status(<<"5", "00">>, Content(<<Media(<<"text/plain">>, StringSchema)>>))>>,
   <<Status(<<"1", "00">>, Json(StringSchema)), Status(<<"3", "02">>, PetJson),
     Status(<<"4", "04">>, NodeRef(RefPrefix("responses") \o <<"/", "not", "_", "found">>))>>,
   <<Status(<<"2", "00">>, Json(ArrayWithoutItems))>>,
   <<Status(<<"2", "04">>, NoContent), Status(<<"2", "XX">>, Json(InlinePet))>>,
   <<Status(<<"2", "00">>, PetJson), Status(<<"4", "00">>, Json(OutsideRef))>>,
   <<Status(<<"default">>, ErrorJson)>>,
   <<Status(<<"2", "00">>, Json(StringSchema)), Status(<<"2", "01">>, PetJson),
     Status(<<"4", "04">>, ErrorJson), Status(<<"5", "00">>, Json(StringSchema)),
     Status(<<"3", "XX">>, Json(NumberSchema))>>}

RequestBodies == {NoNode, PetJson, Json(InlinePet), Json(ArrayWithoutItems)}

OperationIds == {<<"list", "Pets">>, <<"list", "_", "pets">>, <<"show", "Pet">>}

Generators == {<<>>, <<"petstore">>, <<"echo">>}

Arguments(operation, verb, route, parameters, generator) ==
  [operation |-> operation, verb |-> verb, route |-> route,
   parameters |-> parameters, generator |-> generator]

AllParameters == << <<Parameter("id", "path")>>, <<Parameter("tagId", "path")>> >>

CallArguments ==
  {Arguments(Operation(id, AllParameters[2], NoNode, <<Status(<<"2", "00">>, PetJson)>>),
             verb, route, AllParameters[1], generator) :
     id \in OperationIds \cup {<<>>}, generator \in Generators, verb \in {"get", "delete"},
     route \in {<<"/", "pet">>, <<"/", "pet", "/", "{", "id", "}">>}}
  \cup
  {Arguments(Operation(<<"show", "Pet">>, ps[2], NoNode, <<Status(<<"2", "00">>, PetJson)>>),
             verb, route, ps[1], <<>>) :
     verb \in Verbs, route \in Routes, ps \in ParameterLists}
  \cup
  {Arguments(Operation(<<"list", "Pets">>, <<>>, body, responses), "get", route, <<>>, <<>>) :
     body \in RequestBodies, responses \in ResponseLists,
     route \in {<<"/", "pet">>, <<"/", "pet", "/", "{", "id", "}">>}}

-----------------------------------------------------------------------------
(* Bounds                                                                  *)

MaxNodes == 2        \* responses handed to one getResReqTypes call
MaxCalls == 2        \* generateRestfulComponent calls sharing one operationIds list
MaxPaths == 2        \* path items of a document

-----------------------------------------------------------------------------
(* Calls of the exported helpers, one at a time                            *)

Idle == [status |-> "idle"]

NotRunning ==
  /\ pc = "off" /\ specs = <<>> /\ options = <<>> /\ cursor = <<>>
  /\ components = <<>> /\ output = <<>> /\ returned = <<>> /\ log = <<>>

InitFn ==
  /\ fn = "none" /\ arg = <<>> /\ ret = <<>>
  /\ operationIds = <<>> /\ call = Idle
  /\ NotRunning

NodeLists == UNION {[1..n -> Nodes] : n \in 1..MaxNodes}

CallGetRef ==
  \E ref \in Pointers :
    /\ fn = "none"
    /\ fn' = "getRef" /\ arg' = ref /\ ret' = getRef(ref)
    /\ UNCHANGED <<operationIds, call, pc, specs, options, cursor, components, output,
                   returned, log>>

CallGetResReqTypes ==
  \E nodes \in NodeLists :
    /\ fn = "none"
    /\ fn' = "getResReqTypes"
    /\ arg' = nodes
    /\ ret' = getResReqTypes([i \in 1..Len(nodes) |-> Status(<<>>, nodes[i])])
    /\ UNCHANGED <<operationIds, call, pc, specs, options, cursor, components, output,
                   returned, log>>

CallResolveDiscriminator ==
  \E schemas \in SchemaTables :
    /\ fn = "none"
    /\ fn' = "resolveDiscriminator" /\ arg' = schemas /\ ret' = resolveDiscriminator(schemas)
    /\ UNCHANGED <<operationIds, call, pc, specs, options, cursor, components, output,
                   returned, log>>

CallResolveValue ==
  \E schema \in Schemas :
    /\ fn = "none"
    /\ fn' = "resolveValue" /\ arg' = schema /\ ret' = resolveValue(schema)
    /\ UNCHANGED <<operationIds, call, pc, specs, options, cursor, components, output,
                   returned, log>>

CallGetArray ==
  \E item \in ArraySchemas :
    /\ fn = "none"
    /\ fn' = "getArray" /\ arg' = item /\ ret' = getArray(item)
    /\ UNCHANGED <<operationIds, call, pc, specs, options, cursor, components, output,
                   returned, log>>

CallGetObject ==
  \E item \in ObjectSchemas :
    /\ fn = "none"
    /\ fn' = "getObject" /\ arg' = item /\ ret' = getObject(item)
    /\ UNCHANGED <<operationIds, call, pc, specs, options, cursor, components, output,
                   returned, log>>

CallGenerateSchemasDefinition ==
  \E schemas \in DefinitionTables :
    /\ fn = "none"
    /\ fn' = "generateSchemasDefinition"
    /\ arg' = schemas
    /\ ret' = generateSchemasDefinition(schemas)
    /\ UNCHANGED <<operationIds, call, pc, specs, options, cursor, components, output,
                   returned, log>>

\* the caller takes the result and goes on
ReturnFn ==
  /\ fn # "none"
  /\ fn' = "none" /\ arg' = <<>> /\ ret' = <<>>
  /\ UNCHANGED <<operationIds, call, pc, specs, options, cursor, components, output,
                 returned, log>>

NextFn ==
  \/ CallGetRef
  \/ CallGetResReqTypes
  \/ CallResolveDiscriminator
  \/ CallResolveValue
  \/ CallGetArray
  \/ CallGetObject
  \/ CallGenerateSchemasDefinition
  \/ ReturnFn

SpecFn == InitFn /\ [][NextFn]_vars

-----------------------------------------------------------------------------
(* A caller invoking generateRestfulComponent repeatedly with one          *)
(* operationIds list                                                       *)

InitOp ==
  /\ fn = "none" /\ arg = <<>> /\ ret = <<>>
  /\ operationIds = <<>> /\ call = Idle
  /\ NotRunning

Invoke ==
  /\ call.status = "idle"
  /\ Len(operationIds) < MaxCalls
  /\ \E a \in CallArguments :
       /\ call' = [status |-> "returned", arguments |-> a, before |-> operationIds,
                   result |-> generateRestfulComponent(a.operation, a.verb, a.route,
                                operationIds, a.parameters, Components, a.generator)]
       /\ operationIds' = call'.result.operationIds
  /\ UNCHANGED <<fn, arg, ret, pc, specs, options, cursor, components, output, returned, log>>

\* the caller takes the result and goes on
Continue ==
  /\ call.status = "returned"
  /\ call' = Idle
  /\ UNCHANGED <<fn, arg, ret, operationIds, pc, specs, options, cursor, components, output,
                 returned, log>>

NextOp == Invoke \/ Continue

SpecOp == InitOp /\ [][NextOp]_vars

-----------------------------------------------------------------------------
(* importOpenApi: documents and options                                    *)

Entry(verb, operation) == [verb |-> verb, operation |-> operation]
PathItem(route, parameters, verbs) ==
  [route |-> route, parameters |-> parameters, verbs |-> verbs]
Ok200 == <<Status(<<"2", "00">>, PetJson)>>

PathItems ==
  {PathItem(<<"/", "pets">>, <<>>,
            <<Entry("get", Operation(<<"list", "Pets">>, <<>>, NoNode, Ok200))>>),
   PathItem(<<"/", "pets">>, <<>>,
            <<Entry("get", Operation(<<"list", "Pets">>, <<>>, NoNode, Ok200)),
              Entry("post", Operation(<<"list", "Pets">>, <<>>, PetJson, Ok200))>>),
   PathItem(<<"/", "pets", "/", "{", "id", "}">>, <<Parameter("id", "path")>>,
            <<Entry("get", Operation(<<"show", "Pet">>, <<>>, NoNode, Ok200)),
              Entry("delete", Operation(<<"list", "Pets">>, <<>>, NoNode, <<>>))>>),
   PathItem(<<"/", "pet">>, <<>>,
            <<Entry("post", Operation(<<"list", "_", "pets">>, <<>>, PetJson, Ok200))>>),
   PathItem(<<"/", "pet", "/", "{", "id", "}">>, <<>>,
            <<Entry("get", Operation(<<"list", "Pets">>, <<>>, NoNode, Ok200)),
              Entry("put", Operation(<<"list", "Pets">>, <<Parameter("id", "path")>>,
                                     PetJson, Ok200))>>),
   PathItem(<<"/", "store">>, <<>>,
            <<Entry("head", Operation(<<"list", "Pets">>, <<>>, NoNode, Ok200)),
              Entry("get", Operation(<<>>, <<>>, NoNode, Ok200))>>),
   PathItem(<<"/", "store", "/", "{", "id", "}">>, <<Parameter("id", "path")>>,
            <<Entry("put", Operation(<<"show", "Pet">>, <<>>, NoNode,
                                     <<Status(<<"2", "00">>, Json(ArrayWithoutItems))>>)),
              Entry("patch", Operation(<<"show", "Pet">>, <<>>, NoNode, Ok200))>>)}

ComponentTables ==
  {Components,
   [Components EXCEPT
      !.schemas = <<Named(<<"Pet">>, Discriminated("petType",
                       <<Mapped("dog", ToDog), Mapped("cat", ToCat)>>)),
                    Named(<<"Dog">>, Dog), Named(<<"Cat">>, Cat)>>,
      !.requestBodies = <<[name |-> <<"new", "_", "pet">>, node |-> PetJson]>>,
      !.responses = <<[name |-> <<"not", "_", "found">>, node |-> ErrorJson]>>],
   [Components EXCEPT
      !.schemas = <<Named(<<"Pet">>, Discriminated("petType",
                       <<Mapped("dog", ToDog), Mapped("cat", <<"#/", "definitions", "/", "Cat">>)>>)),
                    Named(<<"Dog">>, Dog), Named(<<"Cat">>, Cat)>>],
   [Components EXCEPT !.schemas = <<Named(<<"Pets">>, ArrayWithoutItems)>>],
   [Components EXCEPT
      !.requestBodies = <<[name |-> <<"new", "_", "pet">>, node |-> Json(OutsideRef)]>>],
   [Components EXCEPT
      !.responses = <<[name |-> <<"not", "_", "found">>, node |-> Json(ArrayWithoutItems)]>>]}

RECURSIVE PathLists(_)
PathLists(n) ==
  IF n = 0 THEN {<<>>}
  ELSE LET shorter == PathLists(n - 1)
       IN shorter \cup
          {Append(paths, item) : paths \in {q \in shorter : Len(q) = n - 1},
                                 item \in PathItems}

\* the keys of specs.paths are distinct
DistinctRoutes(paths) ==
  \A i, j \in 1..Len(paths) : paths[i].route = paths[j].route => i = j

Documents ==
  {[components |-> c, paths |-> paths] :
     c \in ComponentTables, paths \in {q \in PathLists(MaxPaths) : DistinctRoutes(q)}}

Options(transform, validation, customImport, generator, operationNameGenerator) ==
  [transformer |-> transform, validation |-> validation, customImport |-> customImport,
   customGenerator |-> generator, customOperationNameGenerator |-> operationNameGenerator]

OptionSets ==
  {Options(FALSE, FALSE, <<>>, <<>>, <<>>),
   Options(TRUE, TRUE, <<>>, <<>>, <<>>),
   Options(FALSE, TRUE, <<"/* a custom import */">>, <<"http">>, <<"petstore">>),
   Options(TRUE, FALSE, <<>>, <<"http">>, <<"echo">>)}

Data(openapi, document) == [openapi |-> openapi, document |-> document]

\* the texts importOpenApi is given, by the document they denote
Inputs ==
  {Data(<<"3.0", ".", "1">>, d) : d \in Documents}
  \cup {Data(v, [components |-> Components, paths |-> <<>>]) :
          v \in {<<"2.0">>, <<"1.2">>, <<>>}}

-----------------------------------------------------------------------------
(* importOpenApi, one action per statement of its body.  pc is the         *)
(* statement about to run, log the calls made so far, returned the state   *)
(* of the promise.                                                          *)

Pending == [status |-> "pending", value |-> <<>>, error |-> NoError]
Rejected(e) == [status |-> "rejected", value |-> <<>>, error |-> e]
Resolved(text) == [status |-> "resolved", value |-> text, error |-> NoError]

NotConvertible == Error("swagger2openapi", <<>>, <<>>)

importSpecs(data) ==
  IF Has(data.openapi) /\ startsWith(data.openapi, <<"3.0">>) THEN Ok(data.document)
  ELSE IF data.openapi = <<"2.0">> THEN Ok(data.document)
  ELSE Throw(NotConvertible)

Init ==
  /\ fn = "importOpenApi" /\ arg \in Inputs /\ ret = <<>>
  /\ options \in OptionSets
  /\ operationIds = <<>> /\ call = Idle
  /\ pc = "importSpecs" /\ specs = <<>> /\ cursor = 1
  /\ components = <<>> /\ output = <<>> /\ returned = Pending /\ log = <<>>

ImportSpecs ==
  /\ pc = "importSpecs"
  /\ log' = Append(log, "importSpecs")
  /\ \E imported \in {importSpecs(arg)} :
       IF Failed(imported)
         THEN /\ pc' = "failed" /\ returned' = Rejected(imported.error)
              /\ UNCHANGED specs
         ELSE /\ pc' = "transformer" /\ specs' = imported.value
              /\ UNCHANGED returned
  /\ UNCHANGED <<fn, arg, ret, operationIds, call, options, cursor, components, output>>

Transformer ==
  /\ pc = "transformer"
  /\ pc' = "validation"
  /\ IF options.transformer
       THEN specs' = transformer(specs) /\ log' = Append(log, "transformer")
       ELSE UNCHANGED <<specs, log>>
  /\ UNCHANGED <<fn, arg, ret, operationIds, call, options, cursor, components, output,
                 returned>>

\* validate only writes what the validator found to the console
Validation ==
  /\ pc = "validation"
  /\ pc' = "resolveDiscriminator"
  /\ IF options.validation
       THEN \E found \in {<<>>, <<"console: warnings">>, <<"console: errors">>} :
              log' = Append(log, "validate") \o found
       ELSE UNCHANGED log
  /\ UNCHANGED <<fn, arg, ret, operationIds, call, options, cursor, components, output,
                 returned, specs>>

\* a variant of the step that goes on to the definitions without propagating
WithoutPropagation ==
  /\ pc = "resolveDiscriminator"
  /\ pc' = "generateSchemasDefinition"
  /\ UNCHANGED <<fn, arg, ret, operationIds, call, options, cursor, components, output,
                 returned, specs, log>>

\* resolveDiscriminator mutates specs in place, also when it throws half-way
ResolveDiscriminator ==
  /\ pc = "resolveDiscriminator"
  /\ log' = Append(log, "resolveDiscriminator")
  /\ \E propagated \in {resolveDiscriminator(specs.components.schemas)} :
       /\ specs' = [specs EXCEPT !.components.schemas = propagated.schemas]
       /\ IF Failed(propagated)
            THEN pc' = "failed" /\ returned' = Rejected(propagated.error)
            ELSE pc' = "generateSchemasDefinition" /\ UNCHANGED returned
  /\ UNCHANGED <<fn, arg, ret, operationIds, call, options, cursor, components, output>>

\* a variant that hands the caller the text gathered so far when a definition throws
EmitPartial(step, definition, next) ==
  /\ log' = Append(log, step)
  /\ IF Failed(definition)
       THEN /\ pc' = "failed" /\ returned' = Resolved(Banner \o output)
            /\ UNCHANGED output
       ELSE /\ pc' = next /\ output' = output \o definition.value
            /\ UNCHANGED returned
  /\ UNCHANGED <<fn, arg, ret, operationIds, call, options, cursor, components, specs>>

\* output += definition, or the rejection of the promise when the definition throws
Emit(step, definition, next) ==
  /\ log' = Append(log, step)
  /\ IF Failed(definition)
       THEN /\ pc' = "failed" /\ returned' = Rejected(definition.error)
            /\ UNCHANGED output
       ELSE /\ pc' = next /\ output' = output \o definition.value
            /\ UNCHANGED returned
  /\ UNCHANGED <<fn, arg, ret, operationIds, call, options, cursor, components, specs>>

GenerateSchemasDefinition ==
  /\ pc = "generateSchemasDefinition"
  /\ \E definition \in {generateSchemasDefinition(specs.components.schemas)} :
     Emit("generateSchemasDefinition", definition, "generateRequestBodiesDefinition")

GenerateRequestBodiesDefinition ==
  /\ pc = "generateRequestBodiesDefinition"
  /\ \E definition \in {generateRequestBodiesDefinition(specs.components.requestBodies)} :
     Emit("generateRequestBodiesDefinition", definition, "generateResponsesDefinition")

GenerateResponsesDefinition ==
  /\ pc = "generateResponsesDefinition"
  /\ \E definition \in {generateResponsesDefinition(specs.components.responses)} :
     Emit("generateResponsesDefinition", definition, "paths")

\* an entry of a path item that is not one of the five verbs is passed over
SkipEntry ==
  /\ pc = "paths"
  /\ cursor <= Len(entriesOf(specs.paths))
  /\ entriesOf(specs.paths)[cursor].verb \notin SupportedVerbs
  /\ cursor' = cursor + 1
  /\ UNCHANGED <<fn, arg, ret, operationIds, call, options, components, output, returned,
                 specs, pc, log>>

generated(entry) ==
  generateRestfulComponent(entry.operation, entry.verb, entry.route, operationIds,
                           entry.parameters, specs.components,
                           options.customOperationNameGenerator)

GenerateRestfulComponent ==
  /\ pc = "paths"
  /\ cursor <= Len(entriesOf(specs.paths))
  /\ entriesOf(specs.paths)[cursor].verb \in SupportedVerbs
  /\ log' = Append(log, "generateRestfulComponent")
  /\ \E entry \in {entriesOf(specs.paths)[cursor]} :
     \E result \in {generated(entry)} :
       /\ operationIds' = result.operationIds
       /\ IF Failed(result)
            THEN /\ pc' = "failed" /\ returned' = Rejected(result.error)
                 /\ UNCHANGED <<components, output, cursor>>
            ELSE /\ components' = Append(components, result.component)
                 /\ output' = output \o result.output
                 /\ cursor' = cursor + 1
                 /\ UNCHANGED <<pc, returned>>
  /\ UNCHANGED <<fn, arg, ret, call, options, specs>>

\* the custom generator's text, the wrap (the default one), the banner and the import
Assemble ==
  /\ pc = "paths"
  /\ cursor > Len(entriesOf(specs.paths))
  /\ pc' = "format"
  /\ output' = Banner
               \o (IF Has(options.customImport)
                     THEN <<"\n">> \o options.customImport \o <<"\n">> ELSE <<>>)
               \o <<"\n", "\n">> \o output
               \o (IF Has(options.customGenerator)
                     THEN join([i \in 1..Len(components) |-> customGeneratorHttp(components[i])],
                               <<>>)
                     ELSE <<>>)
  /\ UNCHANGED <<fn, arg, ret, operationIds, call, options, cursor, components, returned,
                 specs, log>>

Format ==
  /\ pc = "format"
  /\ pc' = "done"
  /\ \E formatted \in {format(output)} :
       returned' = Resolved(formatted) /\ ret' = formatted
  /\ UNCHANGED <<fn, arg, operationIds, call, options, cursor, components, output, specs, log>>

Next ==
  \/ ImportSpecs
  \/ Transformer
  \/ Validation
  \/ ResolveDiscriminator
  \/ GenerateSchemasDefinition
  \/ GenerateRequestBodiesDefinition
  \/ GenerateResponsesDefinition
  \/ SkipEntry
  \/ GenerateRestfulComponent
  \/ Assemble
  \/ Format

Spec == Init /\ [][Next]_vars

-----------------------------------------------------------------------------
(* Properties of the exported helpers (SpecFn)                             *)

Kinds == {"schemas", "responses", "parameters", "requestBodies"}

Suffix(kind) ==
  CASE kind = "schemas" -> <<>>
    [] kind = "responses" -> <<"Response">>
    [] kind = "parameters" -> <<"Parameter">>
    [] kind = "requestBodies" -> <<"RequestBody">>

RootedAt(ref, kind) == startsWith(ref, RefPrefix(kind) \o <<"/">>)

Remainder(ref, kind) == SubSeq(ref, Len(RefPrefix(kind)) + 2, Len(ref))

\* C4: getRef returns PascalCase(remainder after the matched root) plus the
\* suffix of the root that matched, and fails with the unsupported-reference
\* error for every pointer that is not rooted at one of the four kinds.
C4_RootDecides ==
  fn = "getRef" =>
    /\ \A kind \in Kinds :
         RootedAt(arg, kind) => ret = Ok(pascal(Remainder(arg, kind)) \o Suffix(kind))
    /\ (\A kind \in Kinds : ~RootedAt(arg, kind)) => ret = Throw(UnsupportedRef)

\* the type the contract gives one response or request-body node
JsonOrBinaryEntries(node) ==
  {i \in 1..Len(node.content[1]) :
     \/ startsWith(node.content[1][i].contentType, <<"application/json">>)
     \/ startsWith(node.content[1][i].contentType, <<"application/octet-stream">>)}

NodeType(node) ==
  IF ~node.defined THEN Ok(Void)
  ELSE IF isReference(node) THEN getRef(node.ref)
  ELSE IF ~Has(node.content) THEN Ok(Void)
  ELSE IF JsonOrBinaryEntries(node) = {} THEN Ok(Void)
  ELSE resolveValue(node.content[1][CHOOSE i \in JsonOrBinaryEntries(node) :
                                      \A j \in JsonOrBinaryEntries(node) : i <= j].schema)

NodeTypes(nodes) == [i \in 1..Len(nodes) |-> NodeType(nodes[i])]

\* C7: getResReqTypes gives a reference node its getRef name, a node with a
\* JSON or octet-stream content entry the resolved type of the first such
\* entry's schema, and void to a missing node, a node without content and a
\* node without such an entry; the result is the union of the distinct types.
C7_NodeTypes ==
  fn = "getResReqTypes" =>
    \A types \in {NodeTypes(arg)} :
      /\ Len(arg) = 1 => ret = types[1]
      /\ (\A i \in 1..Len(arg) : ~Failed(types[i])) =>
           ret = Ok(join(uniq([i \in 1..Len(arg) |-> types[i].value]), <<" ", "|", " ">>))
      /\ (\E i \in 1..Len(arg) : Failed(types[i])) => Failed(ret)

\* a node whose first JSON or octet-stream entry is neither its first entry nor JSON
C7_Witness ==
  /\ fn = "getResReqTypes" /\ Len(arg) = 1
  /\ arg[1].defined /\ ~isReference(arg[1]) /\ Has(arg[1].content)
  /\ \E i \in JsonOrBinaryEntries(arg[1]) :
       /\ i > 1
       /\ \A j \in JsonOrBinaryEntries(arg[1]) : i <= j
       /\ ~startsWith(arg[1].content[1][i].contentType, <<"application/json">>)
       /\ \E j \in JsonOrBinaryEntries(arg[1]) : j > i
       /\ ret = resolveValue(arg[1].content[1][i].schema)
  /\ ret = Ok(<<"string">>)

\* the mapping entries of a schemas table, <<i, k>> for entry k of schema i
Pairs(schemas) ==
  UNION {{<<i, k>> : k \in 1..Len(schemas[i].schema.discriminator[1].mapping[1])} :
           i \in {j \in 1..Len(schemas) : hasMapping(schemas[j].schema)}}

PairName(schemas, p) == schemas[p[1]].schema.discriminator[1].mapping[1][p[2]].name
PairRef(schemas, p) == schemas[p[1]].schema.discriminator[1].mapping[1][p[2]].ref
PairProperty(schemas, p) == schemas[p[1]].schema.discriminator[1].propertyName
PairTarget(schemas, p) == SubSeq(PairRef(schemas, p), Len(SchemasPrefix) + 1,
                                 Len(PairRef(schemas, p)))
IntoSchemas(schemas, p) == startsWith(PairRef(schemas, p), SchemasPrefix)

\* the enum values of property `property` of the schema named `target`
EnumsOf(schemas, target, property) ==
  UNION {{schemas[i].schema.properties[1][j].schema.enum :
            j \in {k \in 1..Len(schemas[i].schema.properties[1]) :
                     schemas[i].schema.properties[1][k].key = property}} :
           i \in {k \in 1..Len(schemas) :
                    schemas[k].name = target /\ Has(schemas[k].schema.properties)}}

\* p comes before q in the order the two loops visit the entries
Before(p, q) == p[1] < q[1] \/ (p[1] = q[1] /\ p[2] < q[2])

SameTarget(schemas, p, q) ==
  /\ PairTarget(schemas, p) = PairTarget(schemas, q)
  /\ PairProperty(schemas, p) = PairProperty(schemas, q)

SchemaNames(schemas) == {schemas[i].name : i \in 1..Len(schemas)}

\* the names the mapping entries with a ref into #/components/schemas/ point at
Targets(schemas) ==
  {PairTarget(schemas, p) : p \in {q \in Pairs(schemas) : IntoSchemas(schemas, q)}}

\* a schema no mapping points at is as it was, and a schema a mapping points
\* at differs in its properties at most
FrameKept ==
  fn = "resolveDiscriminator" =>
    /\ Len(ret.schemas) >= Len(arg)
    /\ \A i \in 1..Len(arg) :
         /\ ret.schemas[i].name = arg[i].name
         /\ arg[i].name \notin Targets(arg) => ret.schemas[i] = arg[i]
         /\ [ret.schemas[i].schema EXCEPT !.properties = arg[i].schema.properties]
              = arg[i].schema

\* C19: resolveDiscriminator changes nothing but the enum of the
\* discriminating property of schemas that exist: the names in
\* components.schemas are the same before and after (a mapping to a name that
\* is no schema creates none), a schema no mapping points at is unchanged,
\* and when the call fails on a bad ref no schema has been modified
C19_OnlyExistingSchemas ==
  fn = "resolveDiscriminator" =>
    /\ SchemaNames(ret.schemas) = SchemaNames(arg)
    /\ FrameKept
    /\ Failed(ret) => ret.schemas = arg

\* no schema is created: the names are those the table had
NoSchemaCreated ==
  fn = "resolveDiscriminator" => SchemaNames(ret.schemas) = SchemaNames(arg)

\* a call that fails leaves every schema as it was
FailureLeavesSchemas ==
  (fn = "resolveDiscriminator" /\ Failed(ret)) => ret.schemas = arg

Union == <<" ", "|", " ">>

\* the items are an inline schema carrying oneOf, allOf or enum
CarriesChoice(items) ==
  ~Has(items.ref) /\ (Has(items.oneOf) \/ Has(items.allOf) \/ Has(items.enum))

\* C11: for every schema of type array, getArray fails with the missing-items
\* error when items is absent; otherwise its result is the resolved element
\* type followed by [], in parentheses exactly when items is an inline schema
\* carrying oneOf, allOf or enum (an element type that cannot be resolved
\* fails the array with the element's error)
C11_ArrayType ==
  fn = "getArray" =>
    IF ~Has(arg.items) THEN ret = Throw(NoItems)
    ELSE IF Failed(resolveValue(arg.items[1])) THEN ret = resolveValue(arg.items[1])
    ELSE IF CarriesChoice(arg.items[1])
      THEN ret = Ok(<<"(">> \o resolveValue(arg.items[1]).value \o <<")", "[]">>)
      ELSE ret = Ok(resolveValue(arg.items[1]).value \o <<"[]">>)

\* items {oneOf: [Pet, string]} has given (Pet | string)[]
C11_Witness ==
  /\ fn = "getArray"
  /\ Has(arg.items)
  /\ arg.items[1].oneOf = << <<SchemaRef(<<"Pet">>), StringSchema>> >>
  /\ ~arg.items[1].nullable
  /\ ret = Ok(<<"(", "Pet">> \o Union \o <<"string", ")", "[]">>)

\* how many braces are open after the first i tokens of a type
Depth(type, i) ==
  Cardinality({j \in 1..i : type[j] = "{"}) - Cardinality({j \in 1..i : type[j] = "}"})

\* a { ... } shape: one pair of braces around the whole type, so that no
\* union, intersection or | null stands outside it
PlainRecord(type) ==
  /\ Len(type) >= 2
  /\ type[1] = "{"
  /\ type[Len(type)] = "}"
  /\ \A i \in 1..(Len(type) - 1) : Depth(type, i) > 0

\* the keywords after export in a text, in the order of the declarations
Keywords(text) ==
  LET at == {i \in 1..(Len(text) - 2) : text[i] = "export" /\ text[i + 1] = " "}
      nth(k) == CHOOSE i \in at : Cardinality({j \in at : j < i}) = k - 1
  IN [k \in 1..Cardinality(at) |-> text[nth(k) + 2]]

\* C13: generateSchemasDefinition emits one declaration per entry of
\* components.schemas, an interface only when the type resolved for the
\* entry's schema is a plain record, and a type alias in every other case
\* (reference, primitive, array, string enum, allOf, oneOf, nullable, any)
C13_InterfaceOnlyForRecords ==
  (fn = "generateSchemasDefinition" /\ ~Failed(ret)) =>
    /\ Len(Keywords(ret.value)) = Len(arg)
    /\ \A i \in 1..Len(arg) :
         /\ Keywords(ret.value)[i] \in {"interface", "type"}
         /\ Keywords(ret.value)[i] = "interface"
              => PlainRecord(resolveValue(arg[i].schema).value)
         /\ ~PlainRecord(resolveValue(arg[i].schema).value)
              => Keywords(ret.value)[i] = "type"
         /\ (\/ Has(arg[i].schema.ref)
             \/ arg[i].schema.type \in NumberTypes \cup StringTypes \cup {"boolean", "array"}
             \/ Has(arg[i].schema.allOf)
             \/ Has(arg[i].schema.oneOf)
             \/ arg[i].schema.nullable
             \/ resolveValue(arg[i].schema).value = <<"any">>)
              => Keywords(ret.value)[i] = "type"

\* a nullable record declared as a type alias before a record declared as an
\* interface
C13_Witness ==
  /\ fn = "generateSchemasDefinition"
  /\ ~Failed(ret)
  /\ Len(arg) = 2
  /\ arg[1].schema = [InlinePet EXCEPT !.nullable = TRUE]
  /\ arg[2].schema = Dog
  /\ Keywords(ret.value) = <<"type", "interface">>

\* resolving a Reference node gives what getRef gives for its pointer,
\* whatever else the node carries, and never a record, union or array
NameOnly ==
  (fn = "resolveValue" /\ Has(arg.ref)) =>
    /\ ret = getRef(arg.ref)
    /\ \A t \in {"{", "|", "&", "[]", "null"} : ~includes(ret.value, t)

\* C15: resolving a Reference node depends only on its pointer and yields the
\* component's name, never an expansion; and for every schema name N the
\* name resolved for #/components/schemas/N, taken as a schema name itself,
\* resolves to the same name again
C15_StableName ==
  /\ NameOnly
  /\ (fn = "resolveValue" /\ startsWith(arg.ref, SchemasPrefix) /\ ~Failed(ret)) =>
       resolveValue(SchemaRef(ret.value)) = ret

\* the members of an allOf or oneOf, resolved and joined
Joined(members, sep) ==
  mapJoin([i \in 1..Len(members) |-> resolveValue(members[i])], sep)

\* additionalProperties is absent, true or an empty schema
OpenOrAbsent(item) ==
  \/ item.additionalProperties.kind \in {"absent", "true"}
  \/ item.additionalProperties.schema = <<EmptySchema>>

\* the field of that key is written in the record, with ? when optional
FieldOf(record, key, optional) ==
  indexOf(record, <<key>> \o (IF IdentifierRegexp(key) THEN <<>> ELSE <<"\"">>)
                  \o (IF optional THEN <<"?">> ELSE <<>>) \o <<":", " ">>) > 0

\* a record in which a field is required exactly when its key is listed
RecordOf(item, result) ==
  ~Failed(result) =>
    /\ PlainRecord(result.value)
    /\ result.value # FreeForm
    /\ Has(item.properties) =>
         \A i \in 1..Len(item.properties[1]) :
           LET key == item.properties[1][i].key
               listed == \E k \in 1..Len(item.required) : item.required[k] = key
           IN /\ FieldOf(result.value, key, ~listed)
              /\ ~FieldOf(result.value, key, listed)
    /\ item.additionalProperties.kind # "absent"
         => indexOf(result.value, <<"[key: string]", ":", " ">>) > 0

\* C16: getObject applies its rules in order and the first that matches
\* decides: a reference gives the name; allOf the & join of its members;
\* oneOf the | join; no type, properties or additionalProperties gives {};
\* type object without properties and with additionalProperties absent, true
\* or empty gives the open map; properties or additionalProperties give a
\* record whose fields are required exactly when listed in required; any
\* other schema gives any
C16_FirstRuleDecides ==
  fn = "getObject" =>
    IF Has(arg.ref) THEN ret = getRef(arg.ref)
    ELSE IF Has(arg.allOf) THEN ret = Joined(arg.allOf[1], <<" ", "&", " ">>)
    ELSE IF Has(arg.oneOf) THEN ret = Joined(arg.oneOf[1], <<" ", "|", " ">>)
    ELSE IF arg.type = "" /\ ~Has(arg.properties) /\ arg.additionalProperties.kind = "absent"
      THEN ret = Ok(<<"{", "}">>)
    ELSE IF arg.type = "object" /\ ~Has(arg.properties) /\ OpenOrAbsent(arg)
      THEN ret = Ok(FreeForm)
    ELSE IF Has(arg.properties) \/ arg.additionalProperties.kind # "absent"
      THEN RecordOf(arg, ret)
    ELSE ret = Ok(<<"any">>)

\* a schema with allOf, oneOf and properties has given the intersection
C16_Witness ==
  /\ fn = "getObject"
  /\ Has(arg.allOf) /\ Has(arg.oneOf) /\ Has(arg.properties)
  /\ ~Failed(ret)
  /\ SubSeq(ret.value, 1, 5) = <<"Pet", " ", "&", " ", "{">>
  /\ ~includes(ret.value, "|")

\* how many braces and parentheses are open before token i of a type
Nesting(type, i) ==
  Cardinality({j \in 1..(i - 1) : type[j] \in {"{", "("}})
    - Cardinality({j \in 1..(i - 1) : type[j] \in {"}", ")"}})

\* the type is a union or an intersection at its top level
TopLevelChoice(type) ==
  \E i \in 1..Len(type) : type[i] \in {"|", "&"} /\ Nesting(type, i) = 0

\* C18: for every array schema whose items resolve to a union or an
\* intersection at the top level (an items schema with nullable: true, element
\* type T | null, included), the array type is the element type in
\* parentheses followed by [], so that [] applies to the whole element type
C18_ChoiceInParentheses ==
  (/\ fn = "getArray" /\ Has(arg.items) /\ ~Failed(ret)
   /\ TopLevelChoice(resolveValue(arg.items[1]).value)) =>
    ret = Ok(<<"(">> \o resolveValue(arg.items[1]).value \o <<")", "[]">>)

-----------------------------------------------------------------------------
(* Properties of generateRestfulComponent (SpecOp)                         *)

Returned == call.status = "returned"
Succeeded == Returned /\ ~Failed(call.result)

\* the identifier the call works with
IdOf(a) ==
  IF Has(a.operation.operationId) THEN a.operation.operationId
  ELSE IF Has(a.generator)
    THEN customOperationNameGenerator(a.generator[1], a.verb, a.route)
  ELSE <<>>

\* C3: without an operationId and without a generator the call fails with
\* the error naming the verb and the route; with a generator the identifier
\* checked for duplication, recorded and turned into componentName is the
\* generator's result for the verb and the route as given.
C3_GeneratedId ==
  (Returned /\ ~Has(call.arguments.operation.operationId)) =>
    IF ~Has(call.arguments.generator)
      THEN /\ call.result.error = MissingOperationId(call.arguments.verb, call.arguments.route)
           /\ call.result.operationIds = call.before
      ELSE /\ isDuplicated(call.before, IdOf(call.arguments)) =>
                /\ call.result.error = Duplicated(IdOf(call.arguments))
                /\ call.result.operationIds = call.before
           /\ ~isDuplicated(call.before, IdOf(call.arguments)) =>
                /\ call.result.operationIds = Append(call.before, IdOf(call.arguments))
                /\ call.result.error # Duplicated(IdOf(call.arguments))
                /\ ~Failed(call.result) =>
                     /\ call.result.component.componentName = pascal(IdOf(call.arguments))
                     /\ call.result.component.operation.operationId = IdOf(call.arguments)

\* a generated identifier for a route with a placeholder, after an earlier call
C3_Witness ==
  /\ Succeeded
  /\ ~Has(call.arguments.operation.operationId)
  /\ call.arguments.generator = <<"echo">>
  /\ includes(call.arguments.route, "{")
  /\ Len(call.before) = 1
  /\ call.result.operationIds = Append(call.before, <<call.arguments.verb>> \o call.arguments.route)

\* the placeholders of a route as written, in order: what stands between braces
RECURSIVE Placeholders(_)
Placeholders(route) ==
  IF route = <<>> THEN <<>>
  ELSE IF Head(route) = "{"
    THEN <<SubSeq(route, 2, indexOf(route, <<"}">>) - 1)>>
         \o Placeholders(SubSeq(route, indexOf(route, <<"}">>) + 1, Len(route)))
  ELSE Placeholders(Tail(route))

\* the route without a closing slash, and where its final segment starts
Unslashed(route) ==
  IF route # <<>> /\ route[Len(route)] = "/" THEN SubSeq(route, 1, Len(route) - 1) ELSE route

LastSlash(route) ==
  CHOOSE i \in 0..Len(route) :
    /\ i > 0 => route[i] = "/"
    /\ \A j \in (i + 1)..Len(route) : route[j] # "/"

EndsWithPlaceholder(route) ==
  /\ LastSlash(Unslashed(route)) > 0
  /\ LastSlash(Unslashed(route)) + 2 < Len(Unslashed(route))
  /\ Unslashed(route)[LastSlash(Unslashed(route)) + 1] = "{"
  /\ Unslashed(route)[Len(Unslashed(route))] = "}"

WithoutFinalSegment(route) == SubSeq(route, 1, LastSlash(Unslashed(route)) - 1)

Templated(route) == [i \in 1..Len(route) |-> IF route[i] = "{" THEN "${" ELSE route[i]]

Names(paramsInPath) == [i \in 1..Len(paramsInPath) |-> <<paramsInPath[i]>>]

\* C5: for delete on a route whose final segment is a placeholder the
\* descriptor's route lacks that segment and paramsInPath lacks that
\* placeholder and keeps the others; in every other case the route keeps its
\* segments and paramsInPath lists every placeholder.
C5_DeleteRule ==
  Succeeded =>
    IF call.arguments.verb = "delete" /\ EndsWithPlaceholder(call.arguments.route)
      THEN /\ call.result.component.route
                = Templated(WithoutFinalSegment(call.arguments.route))
           /\ Names(call.result.component.paramsInPath)
                = SubSeq(Placeholders(call.arguments.route), 1,
                         Len(Placeholders(call.arguments.route)) - 1)
      ELSE /\ call.result.component.route = Templated(call.arguments.route)
           /\ Names(call.result.component.paramsInPath) = Placeholders(call.arguments.route)

\* the groups of C6, by the first character of the status code
Group(responses, marks) ==
  SelectSeq(responses, LAMBDA e : e.statusCode[1] \in marks)

UnionOf(group, empty) ==
  IF group = <<>> THEN empty
  ELSE join(uniq([i \in 1..Len(group) |-> NodeType(group[i].res).value]), <<" ", "|", " ">>)

\* C6: the success type is the union of the distinct types of the responses
\* whose status code starts with 2, the error type that of the responses
\* whose status code starts with 4 or 5 or is default; the other responses
\* count for neither; an empty success group gives void, an empty error
\* group gives unknown.
C6_Partition ==
  Succeeded =>
    /\ call.result.responseTypes
         = UnionOf(Group(call.arguments.operation.responses, {"2"}), <<"void">>)
    /\ call.result.component.errorTypes
         = UnionOf(Group(call.arguments.operation.responses, {"4", "5", "default"}),
                   <<"unknown">>)

\* two successes of different types, two errors, and a response that is neither
C6_Witness ==
  /\ Succeeded
  /\ Len(Group(call.arguments.operation.responses, {"2"})) = 2
  /\ Len(Group(call.arguments.operation.responses, {"4", "5", "default"})) = 2
  /\ Len(call.arguments.operation.responses) = 5
  /\ call.result.responseTypes = <<"string", " ", "|", " ", "Pet">>
  /\ call.result.component.errorTypes = <<"Error", " ", "|", " ", "string">>

\* the success type and the request-body type the call has resolved
SuccessType(a) == UnionOf(Group(a.operation.responses, {"2"}), <<"void">>)
BodyType(a) == NodeType(a.operation.requestBody).value

\* the text declares an interface or a type alias of that name
Declares(text, name) ==
  \/ indexOf(text, <<"export", " ", "interface", " ">> \o name \o <<" ">>) > 0
  \/ indexOf(text, <<"export", " ", "type", " ">> \o name \o <<" ">>) > 0

\* the response half of C12
ResponseNamed(a, r) ==
  IF includes(SuccessType(a), "{")
    THEN /\ Declares(r.output, r.component.componentName \o <<"Response">>)
         /\ r.component.typeNames.response = r.component.componentName \o <<"Response">>
    ELSE /\ ~Declares(r.output, r.component.componentName \o <<"Response">>)
         /\ r.component.typeNames.response = SuccessType(a)

\* C12 as stated: a success type or request-body type with a { is declared
\* under <componentName>Response / <componentName>RequestBody and the
\* descriptor carries that name; a type without { is not declared and the
\* descriptor carries the resolved type itself
C12_CarriesResolvedType ==
  Succeeded =>
    /\ ResponseNamed(call.arguments, call.result)
    /\ IF includes(BodyType(call.arguments), "{")
         THEN /\ Declares(call.result.output,
                          call.result.component.componentName \o <<"RequestBody">>)
              /\ call.result.component.typeNames.body
                   = call.result.component.componentName \o <<"RequestBody">>
         ELSE /\ ~Declares(call.result.output,
                           call.result.component.componentName \o <<"RequestBody">>)
              /\ call.result.component.typeNames.body = BodyType(call.arguments)

\* C12: as above, except that a request-body type of void (no request body,
\* or none in JSON or binary) is carried by the descriptor as any
C12_NamedOrResolved ==
  Succeeded =>
    /\ ResponseNamed(call.arguments, call.result)
    /\ IF includes(BodyType(call.arguments), "{")
         THEN /\ Declares(call.result.output,
                          call.result.component.componentName \o <<"RequestBody">>)
              /\ call.result.component.typeNames.body
                   = call.result.component.componentName \o <<"RequestBody">>
         ELSE /\ ~Declares(call.result.output,
                           call.result.component.componentName \o <<"RequestBody">>)
              /\ call.result.component.typeNames.body
                   = IF BodyType(call.arguments) = <<"void">> THEN <<"any">>
                     ELSE BodyType(call.arguments)

\* an inline record as the request body and a union with a record as the
\* success type have both been declared
C12_Witness ==
  /\ Succeeded
  /\ call.arguments.operation.requestBody = Json(InlinePet)
  /\ SuccessType(call.arguments)
       = <<"void", " ", "|", " ", "{", "\n", "  ", "name", ":", " ", "string", ";", "\n", "}">>
  /\ call.result.component.typeNames.response = <<"List", "Pets", "Response">>
  /\ call.result.component.typeNames.body = <<"List", "Pets", "RequestBody">>
  /\ Declares(call.result.output, <<"List", "Pets", "Response">>)
  /\ Declares(call.result.output, <<"List", "Pets", "RequestBody">>)

\* the names of the path parameters among the merged parameters
PathParameters(a) ==
  {p.name : p \in {q \in {resolvedParameters(a.parameters, a.operation, Components)[i] :
                            i \in 1..Len(a.parameters) + Len(a.operation.parameters)} :
                     q.in = "path"}}

\* the placeholders of paramsInPath without a path parameter, by position
Missing(a) ==
  {k \in 1..Len(paramsInPathOf(a.verb, a.route)) :
     paramsInPathOf(a.verb, a.route)[k] \notin PathParameters(a)}

FirstMissing(a) ==
  paramsInPathOf(a.verb, a.route)[CHOOSE k \in Missing(a) : \A j \in Missing(a) : k <= j]

\* the steps of the call that come before the parameters
FailsEarlier(a, before) ==
  \/ ~Has(IdOf(a))
  \/ isDuplicated(before, IdOf(a))
  \/ \E i \in 1..Len(a.operation.responses) :
       /\ a.operation.responses[i].statusCode[1] \in {"2", "4", "5", "default"}
       /\ Failed(NodeType(a.operation.responses[i].res))
  \/ Failed(NodeType(a.operation.requestBody))

Distinct(ids) == \A i, j \in 1..Len(ids) : ids[i] = ids[j] => i = j

\* the list never holds an identifier twice, and a successful call appends
\* the identifier of its operation and nothing else
GuardedList ==
  /\ Distinct(operationIds)
  /\ Succeeded => operationIds = Append(call.before, IdOf(call.arguments))

\* C17: across the calls sharing one operationIds list, the list never holds
\* an identifier twice, a successful call appends exactly the identifier of
\* its operation, and a call that fails, for whatever reason, leaves the list
\* as it was
C17_FailedCallLeavesList ==
  /\ GuardedList
  /\ (Returned /\ Failed(call.result)) => operationIds = call.before

-----------------------------------------------------------------------------
(* Properties of importOpenApi (Spec)                                      *)

Finished == pc \in {"done", "failed"}

\* the operations of the document given, in the order they are walked
Given == entriesOf(arg.document.paths)

Walked(i) == Given[i].verb \in {"get", "post", "patch", "put", "delete"}

\* the positions of the operations that repeat an earlier explicit operationId
Repeats ==
  {j \in 1..Len(Given) :
     /\ Walked(j) /\ Has(Given[j].operation.operationId)
     /\ \E i \in 1..(j - 1) :
          Walked(i) /\ Given[i].operation.operationId = Given[j].operation.operationId}

FirstRepeat == CHOOSE j \in Repeats : \A k \in Repeats : j <= k

NoText == returned.value = <<>> /\ ret = <<>>

\* C1 as stated: a document with two operations of one explicit operationId
\* is rejected with the duplication error naming it, and no text is returned.
C1_AlwaysDuplication ==
  (Finished /\ Repeats # {}) =>
    /\ returned.status = "rejected" /\ NoText
    /\ \E j \in Repeats : returned.error = Duplicated(Given[j].operation.operationId)

\* C1: a document with two operations of one explicit operationId is
\* rejected and no text is returned; the run never gets past the first
\* operation repeating an identifier, and when it gets to it the error is the
\* duplication error naming the identifier (a step that fails before it
\* rejects the run with its own error).
C1_Duplication ==
  (Finished /\ Repeats # {}) =>
    /\ returned.status = "rejected" /\ NoText
    /\ log[Len(log)] = "generateRestfulComponent" => cursor <= FirstRepeat
    /\ (log[Len(log)] = "generateRestfulComponent" /\ cursor = FirstRepeat) =>
         returned.error = Duplicated(Given[FirstRepeat].operation.operationId)
    /\ returned.error.kind = Duplicated(<<>>).kind =>
         /\ log[Len(log)] = "generateRestfulComponent" /\ cursor = FirstRepeat
         /\ returned.error = Duplicated(Given[FirstRepeat].operation.operationId)

\* the repeated identifier is met on another route, after an accepted operation
C1_Witness ==
  /\ pc = "failed" /\ Repeats # {}
  /\ Len(components) = 2 /\ cursor = 3 /\ FirstRepeat = 3
  /\ Given[cursor].route # Given[1].route
  /\ returned = Rejected(Duplicated(<<"list", "Pets">>))
  /\ NoText

\* the positions of the operations whose identifier is, once in PascalCase,
\* that of an earlier operation
PascalRepeats ==
  {j \in 1..Len(Given) :
     /\ Walked(j) /\ Has(Given[j].operation.operationId)
     /\ \E i \in 1..(j - 1) :
          /\ Walked(i) /\ Has(Given[i].operation.operationId)
          /\ pascal(Given[i].operation.operationId) = pascal(Given[j].operation.operationId)}

\* C2: two identifiers that are equal in PascalCase make the generation
\* fail, and the componentName values of a successful pass are pairwise
\* distinct.
C2_DistinctComponentNames ==
  /\ (Finished /\ PascalRepeats # {}) => pc = "failed"
  /\ pc = "done" =>
       \A i, j \in 1..Len(components) :
         components[i].componentName = components[j].componentName => i = j

Count(step) == Cardinality({k \in 1..Len(log) : log[k] = step})

TypeSteps ==
  {"generateSchemasDefinition", "generateRequestBodiesDefinition",
   "generateResponsesDefinition", "generateRestfulComponent"}

ResolvesTypes == \E k \in 1..Len(log) : log[k] \in TypeSteps

\* the order of the steps of a run, as far as it has got
PropagationFirst ==
  /\ Count("resolveDiscriminator") <= 1
  /\ \A k \in 1..Len(log) :
       log[k] \in TypeSteps => \E j \in 1..(k - 1) : log[j] = "resolveDiscriminator"
  /\ \A k \in 1..Len(log) :
       log[k] \in {"transformer", "validate"} =>
         \A j \in 1..Len(log) : log[j] = "resolveDiscriminator" => k < j
  /\ ResolvesTypes =>
       \A propagated \in {resolveDiscriminator(arg.document.components.schemas)} :
         ~Failed(propagated) /\ specs.components.schemas = propagated.schemas

Synthesized ==
  {i \in 1..Len(entriesOf(specs.paths)) : entriesOf(specs.paths)[i].verb \in SupportedVerbs}

\* C14: a run is all-or-nothing.  When a step fails (loading, discriminator
\* propagation, a components definition, the synthesis of an operation at any
\* position) the promise is rejected with the error and no text is handed
\* over, whatever has been accumulated; text is returned only by a run in
\* which every definition and every operation of the document went through.
C14_AllOrNothing ==
  /\ pc = "failed" =>
       /\ returned.status = "rejected" /\ returned.error # NoError
       /\ NoText
  /\ pc \notin {"failed", "done"} => returned = Pending /\ NoText
  /\ returned.status = "resolved" =>
       /\ pc = "done" /\ ret = returned.value
       /\ Count("resolveDiscriminator") = 1
       /\ Count("generateSchemasDefinition") = 1
       /\ Count("generateRequestBodiesDefinition") = 1
       /\ Count("generateResponsesDefinition") = 1
       /\ Count("generateRestfulComponent") = Cardinality(Synthesized)
       /\ Len(components) = Cardinality(Synthesized)

\* the second operation of the walk has failed after declarations of the
\* components and of the first operation were accumulated: nothing is returned
C14_Witness ==
  /\ pc = "failed"
  /\ log[Len(log)] = "generateRestfulComponent"
  /\ cursor > 1 /\ Len(components) >= 1
  /\ Len(output) > 0
  /\ returned.status = "rejected"
  /\ NoText

====
